---- MODULE Spec2Model ----
(***************************************************************************)
(* A model of pandora's k-mer graph (src/src/kmergraph.cpp) and of the     *)
(* coverage counters of src/src/kmergraphwithcoverage.cpp.                 *)
(*                                                                         *)
(* A KmerGraph is a record [nodes, next_id]; nodes is the vector of        *)
(* KmerNode objects.  A KmerNode* is modelled by the 0-based position of   *)
(* the node in the vector (nodes are never moved, only appended, and all   *)
(* freed together by clear()).  A pointer value read from beyond the end   *)
(* of the vector is the reference Dangling.                                *)
(*                                                                         *)
(* A call that ends the process (a failed assert, a crash, a fatal error)  *)
(* records result "failed"; a call that returns after undefined behaviour  *)
(* records "undefined".  Nothing is modelled after either.                 *)
(***************************************************************************)
EXTENDS Integers, Sequences, FiniteSets, TLC

VARIABLES
    kg,        \* the KmerGraph under construction
    kg2,       \* a second KmerGraph object (kg2 / read_kg of the tests)
    gfa,       \* the content of the GFA file written by save(), or NoFile
    covgs,     \* KmerGraphWithCoverage::node_index_to_sample_coverage
    calls,     \* the number of coverage calls made so far
    pars,      \* the parameters of the KmerGraphWithCoverage object
    argv,      \* the command line of pandora index
    kmer_prob_dist, \* the histogram handed to find_prob_thresh
    peaks,     \* the locals of find_prob_thresh and the position it is at
    last       \* the last call: its name, arguments, outcome and pre-state

vars == <<kg, kg2, gfa, covgs, calls, pars, argv, kmer_prob_dist, peaks, last>>

\* find_prob_thresh has not been entered
NoPeaks == [pc |-> "idle", first_peak |-> 0, second_peak |-> 0]

----------------------------------------------------------------------------
(* Bounds of the model and constants of the program                        *)

\* most edge references (entries of outNodes lists) a graph of the model holds
MaxEdges == 3

\* most edges the two graphs of SpecEq hold together
MaxEqEdges == 2

\* most edges the graph saved in SpecGfa holds
MaxGfaEdges == 2

\* most coverage calls in a behaviour of SpecCovg
MaxCalls == 2

\* nodes and samples of the coverage graph of SpecCovg
CovgNodes == 2
NumSamples == 2

\* nodes_by_level(10, ...) in get_node_order
NumLevels == 10

\* the largest value std::stoi returns (a 32-bit int)
INT_MAX == 2147483647

\* A uint32_t that may exceed INT_MAX (KmerNode::covg, the argument of
\* check) is the pair <<hi, lo>> of its 16-bit halves, value hi * 2^16 + lo:
\* the halves keep every computed value below 2^31.
HALF == 65536

\* a pointer read from nodes[nodes.size()]: it refers to no node of the graph
Dangling == -1

\* Paths are sequences of half-open intervals <<start, end>>; these are the
\* paths of the tests addNode / addEdge / equals.
P1 == << <<0, 3>> >>
P2 == << <<0, 4>> >>
P3 == << <<4, 5>> >>
Paths == {P1, P2, P3}

----------------------------------------------------------------------------
(* KmerNode                                                                *)

\* KmerNode::KmerNode(id, path): a node with no edges and no coverage
KmerNode(id, p) ==
    [id |-> id, path |-> p, covg |-> <<0, 0>>, outNodes |-> <<>>, inNodes |-> <<>>]

\* KmerNode::operator==, used through pointer_values_equal<KmerNode>
NodeEq(a, b) == a.path = b.path

\* std::find over a vector of node pointers
Contains(s, x) == \E i \in 1..Len(s) : s[i] = x

Count(s, x) == Cardinality({i \in 1..Len(s) : s[i] = x})

----------------------------------------------------------------------------
(* KmerGraph                                                               *)

\* KmerGraph::KmerGraph()
EmptyGraph == [nodes |-> <<>>, next_id |-> 0]

Size(G) == Len(G.nodes)

\* nodes[i], i a 0-based index below nodes.size()
At(G, i) == G.nodes[i + 1]

NumEdges(G) ==
    LET RECURSIVE sum(_)
        sum(i) == IF i = 0 THEN 0 ELSE Len(G.nodes[i].outNodes) + Len(G.nodes[i].inNodes) + sum(i - 1)
    IN  sum(Len(G.nodes))

\* a mutant of clear: next_id is not reset
clear_keepid(G) == [nodes |-> <<>>, next_id |-> G.next_id]

\* KmerGraph::clear()
clear(G) == [nodes |-> <<>>, next_id |-> 0]

\* a mutant of add_node: the dedupe test is dropped
add_node_nodedupe(G, p) ==
    [nodes |-> Append(G.nodes, KmerNode(G.next_id, p)), next_id |-> G.next_id + 1]

\* KmerGraph::add_node(p)
add_node(G, p) ==
    LET n == KmerNode(G.next_id, p) IN
    IF \A i \in 1..Len(G.nodes) : ~NodeEq(G.nodes[i], n)
    THEN [nodes |-> Append(G.nodes, n), next_id |-> G.next_id + 1]
    ELSE G

\* nodes[from]->outNodes.push_back(x)
PushOut(G, from, x) ==
    [G EXCEPT !.nodes[from + 1].outNodes = Append(@, x)]

\* nodes[to]->inNodes.push_back(x)
PushIn(G, to, x) ==
    [G EXCEPT !.nodes[to + 1].inNodes = Append(@, x)]

\* KmerGraph::add_edge(const uint32_t& from, const uint32_t& to): the set of
\* outcomes.  The assert lets from == nodes.size() and to == nodes.size()
\* through; nodes[nodes.size()] is then read beyond the end of the vector
\* (inside its reserved capacity), which yields some pointer that is no node
\* of the graph.  Dereferencing it crashes ("failed") or goes unnoticed
\* ("undefined": the call returns and the behaviour of the process is no
\* longer defined).
add_edge_id(G, from, to) ==
    IF ~(from <= Size(G) /\ to <= Size(G))
    THEN {[g |-> G, result |-> "failed"]}
    ELSE IF from < Size(G) /\ to < Size(G)
    THEN LET G1 == IF ~Contains(At(G, from).outNodes, to) THEN PushOut(G, from, to) ELSE G
             G2 == IF ~Contains(At(G1, to).inNodes, from) THEN PushIn(G1, to, from) ELSE G1
         IN  {[g |-> G2, result |-> "ok"]}
    ELSE IF from = Size(G) /\ to = Size(G)
    THEN \* both pointers are garbage; every access goes through them
         {[g |-> G, result |-> r] : r \in {"failed", "undefined"}}
    ELSE IF from = Size(G)
    THEN \* line 55 dereferences the garbage nodes[from]: a crash, or else the
         \* garbage pointer is pushed to nodes[to]->inNodes
         {[g |-> G, result |-> "failed"],
          [g |-> PushIn(G, to, Dangling), result |-> "undefined"]}
    ELSE \* to = Size(G): the garbage nodes[to] is pushed to
         \* nodes[from]->outNodes, then line 59 dereferences it
         {[g |-> PushOut(G, from, Dangling), result |-> r] : r \in {"failed", "undefined"}}

\* find_if(nodes.begin(), nodes.end(), condition(p)): the index of the first
\* node with path p, nodes.size() for nodes.end()
find_path(G, p) ==
    IF \E i \in 1..Len(G.nodes) : G.nodes[i].path = p
    THEN (CHOOSE i \in 1..Len(G.nodes) :
             /\ G.nodes[i].path = p
             /\ \A j \in 1..(i - 1) : G.nodes[j].path # p) - 1
    ELSE Size(G)

\* a mutant of add_edge(from, to) on paths: both lists are pushed without the find
add_edge_path_nofind(G, from, to) ==
    LET from_it == find_path(G, from)
        to_it == find_path(G, to)
    IN  IF ~(from_it # Size(G) /\ to_it # Size(G))
        THEN [g |-> G, result |-> "failed"]
        ELSE [g |-> PushIn(PushOut(G, from_it, to_it), to_it, from_it), result |-> "ok"]

\* KmerGraph::add_edge(const Path& from, const Path& to)
add_edge_path(G, from, to) ==
    LET from_it == find_path(G, from)
        to_it == find_path(G, to)
    IN  IF ~(from_it # Size(G) /\ to_it # Size(G))
        THEN [g |-> G, result |-> "failed"]
        ELSE IF ~Contains(At(G, from_it).outNodes, to_it)
        THEN [g |-> PushIn(PushOut(G, from_it, to_it), to_it, from_it), result |-> "ok"]
        ELSE [g |-> G, result |-> "ok"]

\* unsigned 32-bit addition of a small number to <<hi, lo>>
U32Add(x, d) ==
    LET lo == x[2] + d IN
    <<(x[1] + lo \div HALF) % HALF, lo % HALF>>

\* a size or an id (small, non-negative) as a uint32_t
U32(n) == <<n \div HALF, n % HALF>>

\* a mutant of check: the out-degree test is missing
check_noout(G, num_minikmers) ==
    IF ~(num_minikmers = <<0, 0>> \/ U32(Size(G)) = U32Add(num_minikmers, 2))
    THEN "failed"
    ELSE IF \A i \in 1..Len(G.nodes) : Len(G.nodes[i].inNodes) > 0 \/ G.nodes[i].id = 0
    THEN "ok"
    ELSE "failed"

\* KmerGraph::check(num_minikmers): "ok" when every assert passes.
\* num_minikmers + 2 is computed in 32 unsigned bits.
check(G, num_minikmers) ==
    IF ~(num_minikmers = <<0, 0>> \/ U32(Size(G)) = U32Add(num_minikmers, 2))
    THEN "failed"
    ELSE IF \A i \in 1..Len(G.nodes) :
               /\ Len(G.nodes[i].inNodes) > 0 \/ G.nodes[i].id = 0
               /\ Len(G.nodes[i].outNodes) > 0 \/ G.nodes[i].id = Size(G) - 1
    THEN "ok"
    ELSE "failed"

\* the first loop of get_node_order, from node i on: the table nodes_by_level
\* it fills, or the failure of its assert ("failed"), or a write beyond the
\* NumLevels slots of the table ("undefined")
RECURSIVE fill_levels(_, _, _, _, _)
fill_levels(G, i, num_bubble_starts, num_bubble_ends, nodes_by_level) ==
    IF i = Size(G)
    THEN [result |-> "ok", nodes_by_level |-> nodes_by_level]
    ELSE LET ends == IF Len(At(G, i).inNodes) > 1
                     THEN num_bubble_ends + 1 ELSE num_bubble_ends
             starts == IF Len(At(G, i).outNodes) > 1
                       THEN num_bubble_starts + 1 ELSE num_bubble_starts
             level == num_bubble_starts - ends
         IN  IF ~(level >= 0)
             THEN [result |-> "failed", nodes_by_level |-> nodes_by_level]
             ELSE IF level >= NumLevels
             THEN [result |-> "undefined", nodes_by_level |-> nodes_by_level]
             ELSE fill_levels(G, i + 1, starts, ends,
                      [nodes_by_level EXCEPT ![level] = Append(@, i)])

\* the second loop of get_node_order: levels i-1, i-2, ..., 0 appended in turn
RECURSIVE concat_levels(_, _)
concat_levels(nodes_by_level, i) ==
    IF i = 0 THEN <<>>
    ELSE nodes_by_level[i - 1] \o concat_levels(nodes_by_level, i - 1)

\* a mutant of get_node_order: the levels are emitted shallowest first
get_node_order_ascending(G) ==
    LET t == fill_levels(G, 0, 0, 0, [l \in 0..(NumLevels - 1) |-> <<>>])
        RECURSIVE up(_)
        up(i) == IF i = NumLevels THEN <<>> ELSE t.nodes_by_level[i] \o up(i + 1)
    IN  [result |-> t.result,
         order |-> IF t.result = "ok" THEN up(0) ELSE <<>>]

\* a mutant of get_node_order: a bubble end is counted after the node is placed
get_node_order_lateend(G) ==
    LET RECURSIVE fill(_, _, _, _)
        fill(i, starts, ends, tbl) ==
            IF i = Size(G) THEN tbl
            ELSE LET level == IF starts - ends < 0 THEN 0 ELSE starts - ends IN
                 fill(i + 1,
                      IF Len(At(G, i).outNodes) > 1 THEN starts + 1 ELSE starts,
                      IF Len(At(G, i).inNodes) > 1 THEN ends + 1 ELSE ends,
                      [tbl EXCEPT ![level] = Append(@, i)])
    IN  [result |-> "ok",
         order |-> concat_levels(fill(0, 0, 0, [l \in 0..(NumLevels - 1) |-> <<>>]), NumLevels)]

\* KmerGraph::get_node_order(): the nodes (as positions) in the order returned
get_node_order(G) ==
    LET t == fill_levels(G, 0, 0, 0, [l \in 0..(NumLevels - 1) |-> <<>>])
    IN  [result |-> t.result,
         order |-> IF t.result = "ok"
                   THEN concat_levels(t.nodes_by_level, NumLevels) ELSE <<>>]

\* KmerGraph::operator==
equals(x, y) ==
    IF Size(y) # Size(x) THEN FALSE
    ELSE \A i \in 1..Len(x.nodes) : \E j \in 1..Len(y.nodes) : NodeEq(x.nodes[i], y.nodes[j])

----------------------------------------------------------------------------
(* GFA save and load.  A file is a sequence of lines, a line a sequence of  *)
(* tab-separated fields, a number its sequence of decimal digits.          *)

\* <<hi, lo>> divided by ten: quotient and remainder
U32DivMod10(x) ==
    LET t == (x[1] % 10) * HALF + x[2] IN
    [q |-> <<x[1] \div 10, t \div 10>>, r |-> t % 10]

\* operator<< of an unsigned number: its decimal digits, most significant first
RECURSIVE Digits(_)
Digits(x) ==
    LET d == U32DivMod10(x) IN
    IF d.q = <<0, 0>> THEN <<d.r>> ELSE Append(Digits(d.q), d.r)

\* std::stoi on a string of digits: the int read, or no value
\* (std::out_of_range is thrown) when it exceeds INT_MAX
RECURSIVE stoi_from(_, _, _)
stoi_from(digits, i, acc) ==
    IF i > Len(digits) THEN [in_range |-> TRUE, value |-> acc]
    ELSE IF acc > (INT_MAX - digits[i]) \div 10 THEN [in_range |-> FALSE, value |-> 0]
    ELSE stoi_from(digits, i + 1, acc * 10 + digits[i])

stoi(digits) == stoi_from(digits, 1, 0)

\* operator<< of a Path: the number of intervals, then the intervals
PathToString(p) == [n |-> Len(p), intervals |-> p]

\* operator>> of a Path
PathFromString(f) == SubSeq(f.intervals, 1, f.n)

\* the lines save writes for node i: its S line, then one L line per out-edge.
\* An out reference is printed through the node it points to.
RECURSIVE link_lines(_, _, _)
link_lines(G, i, j) ==
    IF j = Len(At(G, i).outNodes) THEN <<>>
    ELSE << <<"L", Digits(U32(At(G, i).id)), "+",
              Digits(U32(At(G, At(G, i).outNodes[j + 1]).id)), "+", "0M">> >>
         \o link_lines(G, i, j + 1)

RECURSIVE node_lines(_, _)
node_lines(G, i) ==
    IF i = Size(G) THEN <<>>
    ELSE << <<"S", Digits(U32(At(G, i).id)), PathToString(At(G, i).path),
              [tag |-> "RC:i:", digits |-> Digits(At(G, i).covg)]>> >>
         \o link_lines(G, i, 0) \o node_lines(G, i + 1)

\* KmerGraph::save(filepath): the lines of the file
save(G) ==
    << <<"H", "VN:Z:1.0", "bn:Z:--linear --singlearr">> >> \o node_lines(G, 0)

\* the first pass of load from line i on: the S lines
RECURSIVE load_segments(_, _, _)
load_segments(G, file, i) ==
    IF i > Len(file) THEN [g |-> G, result |-> "ok"]
    ELSE IF file[i][1] # "S" THEN load_segments(G, file, i + 1)
    ELSE IF ~(Len(file[i]) >= 4) THEN [g |-> G, result |-> "failed"]
    ELSE LET id == stoi(file[i][2])
             G1 == add_node(G, PathFromString(file[i][3]))
             covg == stoi(file[i][4].digits)
         IN  IF ~id.in_range THEN [g |-> G, result |-> "failed"]
             ELSE IF ~(At(G1, Size(G1) - 1).id = id.value) THEN [g |-> G1, result |-> "failed"]
             ELSE IF ~covg.in_range THEN [g |-> G1, result |-> "failed"]
             ELSE load_segments(
                      [G1 EXCEPT !.nodes[Size(G1)].covg = U32(covg.value)], file, i + 1)

\* the second pass of load from line i on: the L lines
RECURSIVE load_links(_, _, _)
load_links(G, file, i) ==
    IF i > Len(file) THEN [g |-> G, result |-> "ok"]
    ELSE IF file[i][1] # "L" THEN load_links(G, file, i + 1)
    ELSE IF ~(Len(file[i]) >= 5) THEN [g |-> G, result |-> "failed"]
    ELSE LET same == file[i][3] = file[i][5]
             from == IF same THEN stoi(file[i][2]) ELSE stoi(file[i][4])
             to == IF same THEN stoi(file[i][4]) ELSE stoi(file[i][2])
         IN  IF ~(from.in_range /\ to.in_range)
             THEN [g |-> G, result |-> "failed"]
             ELSE LET outcomes == add_edge_id(G, from.value, to.value) IN
                  IF \E o \in outcomes : o.result = "ok"
                  THEN load_links((CHOOSE o \in outcomes : o.result = "ok").g, file, i + 1)
                  ELSE IF \A o \in outcomes : o.result = "failed"
                  THEN [g |-> G, result |-> "failed"]
                  ELSE [g |-> G, result |-> "undefined"]

\* KmerGraph::load(filepath) on the graph G, the file holding the lines file
load(G, file) ==
    LET s == load_segments(G, file, 1) IN
    IF s.result # "ok" THEN s ELSE load_links(s.g, file, 1)

----------------------------------------------------------------------------
(* KmerGraphWithCoverage: the coverage counters.  covgs[n][s] is the pair   *)
(* <<forward, reverse>> of node n - 1 and sample s - 1.                    *)

UINT16_MAX == 65535

\* the counters after construction: every node holds NumSamples zero pairs
zeroCoverages == [n \in 1..CovgNodes |-> [s \in 1..NumSamples |-> <<0, 0>>]]

Strands == {"Forward", "Reverse"}

StrandIndex(strand) == IF strand = "Forward" THEN 1 ELSE 2

\* a mutant of increment_covg: the counter is a plain uint16_t increment
increment_covg_wrap(C, node_id, strand, sample_id) ==
    IF ~(Len(C[node_id + 1]) > sample_id)
    THEN [c |-> C, result |-> "failed"]
    ELSE [c |-> [C EXCEPT ![node_id + 1][sample_id + 1][StrandIndex(strand)] = (@ + 1) % (UINT16_MAX + 1)],
          result |-> "ok"]

\* a mutant of increment_covg: a counter is raised only while the counter of
\* the other strand is zero
increment_covg_sticky(C, node_id, strand, sample_id) ==
    IF ~(Len(C[node_id + 1]) > sample_id)
    THEN [c |-> C, result |-> "failed"]
    ELSE LET coverage == C[node_id + 1][sample_id + 1][StrandIndex(strand)]
             other == C[node_id + 1][sample_id + 1][3 - StrandIndex(strand)]
         IN  IF coverage < UINT16_MAX /\ other = 0
             THEN [c |-> [C EXCEPT ![node_id + 1][sample_id + 1][StrandIndex(strand)] = coverage + 1],
                   result |-> "ok"]
             ELSE [c |-> C, result |-> "ok"]

\* KmerGraphWithCoverage::increment_covg(node_id, strand, sample_id)
increment_covg(C, node_id, strand, sample_id) ==
    IF ~(Len(C[node_id + 1]) > sample_id)
    THEN [c |-> C, result |-> "failed"]
    ELSE LET coverage == C[node_id + 1][sample_id + 1][StrandIndex(strand)] IN
         IF coverage < UINT16_MAX
         THEN [c |-> [C EXCEPT ![node_id + 1][sample_id + 1][StrandIndex(strand)] = coverage + 1],
               result |-> "ok"]
         ELSE [c |-> C, result |-> "ok"]

\* KmerGraphWithCoverage::get_covg(node_id, strand, sample_id)
get_covg(C, node_id, strand, sample_id) ==
    IF Len(C[node_id + 1]) <= sample_id THEN 0
    ELSE C[node_id + 1][sample_id + 1][StrandIndex(strand)]

\* a mutant of set_covg: the value is stored for both strands
set_covg_both(C, node_id, value, strand, sample_id) ==
    IF ~(Len(C[node_id + 1]) > sample_id)
    THEN [c |-> C, result |-> "failed"]
    ELSE [c |-> [C EXCEPT ![node_id + 1][sample_id + 1] = <<value, value>>],
          result |-> "ok"]

\* KmerGraphWithCoverage::set_covg(node_id, value, strand, sample_id)
set_covg(C, node_id, value, strand, sample_id) ==
    IF ~(Len(C[node_id + 1]) > sample_id)
    THEN [c |-> C, result |-> "failed"]
    ELSE [c |-> [C EXCEPT ![node_id + 1][sample_id + 1][StrandIndex(strand)] = value],
          result |-> "ok"]

----------------------------------------------------------------------------
(* Floating-point log-probabilities                                        *)
(*                                                                         *)
(* A float is a record [k, n, d]: k = "fin" is the finite value n / d in   *)
(* units of 10^-6 (so that the tolerance 0.000001 of find_max_path is one  *)
(* unit), "ninf" and "pinf" are the infinities, "nan" is not-a-number and  *)
(* "lowest" is std::numeric_limits<float>::lowest(), a finite value below  *)
(* every other finite value of the model.  Rounding is not modelled.       *)

Fin(v) == [k |-> "fin", n |-> v, d |-> 1]

NegInf == [k |-> "ninf", n |-> 0, d |-> 1]

PosInf == [k |-> "pinf", n |-> 0, d |-> 1]

NaN == [k |-> "nan", n |-> 0, d |-> 1]

\* std::numeric_limits<float>::lowest()
Lowest == [k |-> "lowest", n |-> 0, d |-> 1]

\* a + b for sums of log-probabilities (d = 1)
FAdd(a, b) ==
    IF a.k = "nan" \/ b.k = "nan" THEN NaN
    ELSE IF a.k = "fin" /\ b.k = "fin" THEN Fin(a.n + b.n)
    ELSE IF a.k = "fin" THEN b
    ELSE IF b.k = "fin" THEN a
    ELSE IF a.k = b.k THEN a
    ELSE NaN

FNeg(a) ==
    IF a.k = "fin" THEN Fin(-a.n)
    ELSE IF a.k = "ninf" THEN PosInf
    ELSE IF a.k = "pinf" THEN NegInf
    ELSE a

\* a - b
FSub(a, b) == FAdd(a, FNeg(b))

\* a / len for a sum a and an unsigned len converted to float
FDiv(a, len) ==
    IF a.k = "nan" THEN NaN
    ELSE IF a.k # "fin" THEN a
    ELSE IF len > 0 THEN [k |-> "fin", n |-> a.n, d |-> len]
    ELSE IF a.n = 0 THEN NaN
    ELSE IF a.n > 0 THEN PosInf
    ELSE NegInf

\* const float tolerance = 0.000001, in units of 10^-6
tolerance == 1

\* a > m + tolerance
GreaterByTolerance(a, m) ==
    IF a.k = "nan" \/ m.k = "nan" THEN FALSE
    ELSE IF m.k = "pinf" THEN FALSE
    ELSE IF m.k = "ninf" THEN a.k # "ninf"
    ELSE IF m.k = "lowest" THEN a.k \in {"fin", "pinf"}
    ELSE IF a.k = "pinf" THEN TRUE
    ELSE IF a.k # "fin" THEN FALSE
    ELSE a.n * m.d > m.n * a.d + tolerance * a.d * m.d

\* m - a <= tolerance
WithinTolerance(m, a) ==
    IF a.k = "nan" \/ m.k = "nan" THEN FALSE
    ELSE IF m.k = "pinf" THEN FALSE
    ELSE IF m.k = "ninf" THEN a.k # "ninf"
    ELSE IF a.k = "ninf" THEN FALSE
    ELSE IF a.k = "pinf" THEN TRUE
    ELSE IF m.k = "lowest" THEN TRUE
    ELSE IF a.k = "lowest" THEN FALSE
    ELSE m.n * a.d <= a.n * m.d + tolerance * a.d * m.d

\* log(i) for i = 1..8, in units of 10^-6
LogTable == <<0, 693147, 1098612, 1386294, 1609438, 1791759, 1945910, 2079442>>

\* log(a / b) for positive integers a and b
Log(a, b) == LogTable[a] - LogTable[b]

\* log(i!) for i = 0..4
RECURSIVE LogFactorial(_)
LogFactorial(i) == IF i <= 1 THEN 0 ELSE LogTable[i] + LogFactorial(i - 1)

\* lognchoosek2(n, k1, k2): the log of the multinomial coefficient
\* n! / (k1! k2! (n - k1 - k2)!)
lognchoosek2(n, k1, k2) ==
    LogFactorial(n) - LogFactorial(k1) - LogFactorial(k2) - LogFactorial(n - k1 - k2)

----------------------------------------------------------------------------
(* Probability models and the maximum-likelihood path                      *)
(*                                                                         *)
(* A KmerGraphWithCoverage is given by its graph G (kmer_prg), its         *)
(* counters C and its parameters P; X bundles them with the arguments      *)
(* prob_model, max_num_kmers_to_average and sample_id of a call.  The      *)
(* view sorted_nodes lists the nodes in the order of their ids.            *)

\* Path::length(): the number of positions the intervals of the path cover
PathLength(p) ==
    LET RECURSIVE len(_)
        len(i) == IF i = 0 THEN 0 ELSE (p[i][2] - p[i][1]) + len(i - 1)
    IN  len(Len(p))

\* get_forward_covg(node_id, sample_id) + get_reverse_covg(node_id, sample_id)
sum_coverages(C, node_id, sample_id) ==
    get_covg(C, node_id, "Forward", sample_id) + get_covg(C, node_id, "Reverse", sample_id)

\* a probability call that returns v / that ends in fatal_error
Returns(v) == [result |-> "ok", value |-> v]

FatalError == [result |-> "failed", value |-> NaN]

\* KmerGraphWithCoverage::nbin_prob: the log of the negative binomial
\* density (boost) at k, for an integer r and a fraction p; the floor
\* lowest() / 1000 lies below every value computed here
nbin_prob(X, node_id) ==
    LET k == sum_coverages(X.c, node_id, X.sample_id)
        r == X.p.negative_binomial_parameter_r
        p == X.p.negative_binomial_parameter_p
    IN  Returns(Fin(lognchoosek2(k + r - 1, k, r - 1)
                    + r * Log(p[1], p[2]) + k * Log(p[2] - p[1], p[2])))

\* KmerGraphWithCoverage::lin_prob
lin_prob(X, node_id) ==
    IF ~(X.p.num_reads # 0) THEN FatalError
    ELSE LET k == sum_coverages(X.c, node_id, X.sample_id) IN
         IF k = 0 THEN Returns(NegInf) ELSE Returns(Fin(Log(k, X.p.num_reads)))

\* KmerGraphWithCoverage::bin_prob(node_id, num, sample_id)
bin_prob_num(X, node_id, num) ==
    LET p == X.p.binomial_parameter_p
        fwd == get_covg(X.c, node_id, "Forward", X.sample_id)
        rev == get_covg(X.c, node_id, "Reverse", X.sample_id)
        sum == fwd + rev
    IN  IF ~(p[1] # p[2]) THEN FatalError
        ELSE IF ~(node_id < Size(X.g)) THEN FatalError
        ELSE IF node_id = 0 \/ node_id = Size(X.g) - 1 THEN Returns(Fin(0))
        ELSE IF sum > num
        THEN Returns(Fin(lognchoosek2(sum, fwd, rev) + sum * Log(p[1], 2 * p[2])))
        ELSE Returns(Fin(lognchoosek2(num, fwd, rev) + sum * Log(p[1], 2 * p[2])
                         + (num - sum) * Log(p[2] - p[1], p[2])))

\* KmerGraphWithCoverage::bin_prob(node_id, sample_id)
bin_prob(X, node_id) ==
    IF ~(X.p.num_reads # 0) THEN FatalError
    ELSE bin_prob_num(X, node_id, X.p.num_reads)

\* a mutant of get_prob: the linear model is computed without its test of
\* num_reads
get_prob_lin_unchecked(X, node_id) ==
    IF X.prob_model = "nbin" THEN nbin_prob(X, node_id)
    ELSE IF X.prob_model = "bin"
    THEN IF ~(X.p.binomial_parameter_p[1] < X.p.binomial_parameter_p[2] /\ X.p.num_reads > 0)
         THEN FatalError
         ELSE bin_prob(X, node_id)
    ELSE IF X.prob_model = "lin" THEN Returns(NegInf)
    ELSE FatalError

\* KmerGraphWithCoverage::get_prob(prob_model, node_id, sample_id)
get_prob(X, node_id) ==
    IF X.prob_model = "nbin" THEN nbin_prob(X, node_id)
    ELSE IF X.prob_model = "bin"
    THEN IF ~(X.p.binomial_parameter_p[1] < X.p.binomial_parameter_p[2] /\ X.p.num_reads > 0)
         THEN FatalError
         ELSE bin_prob(X, node_id)
    ELSE IF X.prob_model = "lin" THEN lin_prob(X, node_id)
    ELSE FatalError

\* a mutant of coverage_is_zeroes: the first and the last node are skipped
coverage_is_zeroes_inner(X) ==
    \A i \in 2..(Len(X.g.nodes) - 1) : ~(sum_coverages(X.c, X.g.nodes[i].id, X.sample_id) > 0)

\* KmerGraphWithCoverage::coverage_is_zeroes(sample_id)
coverage_is_zeroes(X) ==
    \A i \in 1..Len(X.g.nodes) : ~(sum_coverages(X.c, X.g.nodes[i].id, X.sample_id) > 0)

\* x - 1 in 32 unsigned bits
U32Dec(x) ==
    IF x[2] > 0 THEN <<x[1], x[2] - 1>>
    ELSE IF x[1] > 0 THEN <<x[1] - 1, HALF - 1>>
    ELSE <<HALF - 1, HALF - 1>>

\* the loop of prob_path from position i on: the sum so far and the number
\* of get_prob calls made
RECURSIVE sum_probs(_, _, _, _, _)
sum_probs(X, kpath, i, sum, probes) ==
    IF i > Len(kpath) THEN [result |-> "ok", value |-> sum, probes |-> probes]
    ELSE LET r == get_prob(X, kpath[i]) IN
         IF r.result # "ok" THEN [result |-> "failed", value |-> NaN, probes |-> probes + 1]
         ELSE sum_probs(X, kpath, i + 1, FAdd(sum, r.value), probes + 1)

\* KmerGraphWithCoverage::prob_path(kpath, sample_id, prob_model): the float
\* returned is sum / len, kept as its two operands; len is a uint32_t.
\* kpath is a vector of node ids; on an empty kpath the call reads kpath[0]
\* of an empty vector.
prob_path(X, kpath) ==
    LET s == sum_probs(X, kpath, 1, Fin(0), 0) IN
    IF s.result # "ok" THEN [result |-> "failed", sum |-> NaN, len |-> <<0, 0>>, probes |-> s.probes]
    ELSE IF Len(kpath) = 0
    THEN [result |-> "undefined", sum |-> s.value, len |-> <<0, 0>>, probes |-> s.probes]
    ELSE LET len0 == U32(Len(kpath))
             len1 == IF PathLength(At(X.g, kpath[1]).path) = 0 THEN U32Dec(len0) ELSE len0
             len2 == IF PathLength(At(X.g, kpath[Len(kpath)]).path) = 0 THEN U32Dec(len1) ELSE len1
             len3 == IF len2 = <<0, 0>> THEN <<0, 1>> ELSE len2
         IN  [result |-> "ok", sum |-> s.value, len |-> len3, probes |-> s.probes]

\* the node reached from node by following prev_node_along_maxpath steps times
RECURSIVE nth_prev(_, _, _)
nth_prev(prev, node, steps) ==
    IF steps = 0 THEN node ELSE nth_prev(prev, prev[node + 1], steps - 1)

\* the tables of find_max_path before its loop
dp_start(X) ==
    [max_sum_of_log_probs_from_node |-> [i \in 1..Size(X.g) |-> Fin(0)],
     length_of_maxpath_from_node |-> [i \in 1..Size(X.g) |-> 0],
     prev_node_along_maxpath |-> [i \in 1..Size(X.g) |-> Size(X.g) - 1],
     max_mean |-> Lowest, max_length |-> 0,
     probes |-> 0, steps |-> 0, result |-> "ok"]

\* a mutant of dp_edge: max_mean is not raised to the mean of the successor
\* taken
dp_edge_keepmean(X, st, current_node, considered_outnode) ==
    LET sums == st.max_sum_of_log_probs_from_node
        lens == st.length_of_maxpath_from_node
        terminus == Size(X.g) - 1
        mean == FDiv(sums[considered_outnode + 1], lens[considered_outnode + 1])
        is_terminus_and_most_likely ==
            considered_outnode = terminus /\ GreaterByTolerance(Fin(X.p.thresh), st.max_mean)
        avg_log_likelihood_is_most_likely == GreaterByTolerance(mean, st.max_mean)
        avg_log_likelihood_is_close_to_most_likely == WithinTolerance(st.max_mean, mean)
        is_longer_path == lens[considered_outnode + 1] > st.max_length
        counted == [st EXCEPT !.steps = @ + 1]
    IN  IF ~(is_terminus_and_most_likely \/ avg_log_likelihood_is_most_likely
             \/ (avg_log_likelihood_is_close_to_most_likely /\ is_longer_path))
        THEN counted
        ELSE
        LET here == get_prob(X, current_node)
            prev1 == [st.prev_node_along_maxpath EXCEPT ![current_node + 1] = considered_outnode]
            len1 == 1 + lens[considered_outnode + 1]
            sum1 == FAdd(here.value, sums[considered_outnode + 1])
            truncated == len1 > X.max_num_kmers_to_average
            tail == nth_prev(prev1, prev1[current_node + 1], X.max_num_kmers_to_average)
            there == get_prob(X, tail)
            sum2 == IF truncated THEN FSub(sum1, there.value) ELSE sum1
            len2 == IF truncated THEN len1 - 1 ELSE len1
            mean2 == IF considered_outnode # terminus THEN st.max_mean ELSE Fin(X.p.thresh)
            length2 == IF considered_outnode # terminus
                       THEN lens[considered_outnode + 1] ELSE st.max_length
        IN  IF here.result # "ok"
            THEN [counted EXCEPT !.result = "failed", !.probes = @ + 1]
            ELSE IF truncated /\ there.result # "ok"
            THEN [counted EXCEPT !.result = "failed", !.probes = @ + 2]
            ELSE IF truncated /\ ~(len2 = X.max_num_kmers_to_average)
            THEN [counted EXCEPT !.result = "failed", !.probes = @ + 2]
            ELSE [counted EXCEPT
                    !.max_sum_of_log_probs_from_node[current_node + 1] = sum2,
                    !.length_of_maxpath_from_node[current_node + 1] = len2,
                    !.prev_node_along_maxpath = prev1,
                    !.max_mean = mean2,
                    !.max_length = length2,
                    !.probes = @ + (IF truncated THEN 2 ELSE 1)]

\* the body of the inner loop of find_max_path for the out-neighbour
\* considered_outnode of current_node
dp_edge(X, st, current_node, considered_outnode) ==
    LET sums == st.max_sum_of_log_probs_from_node
        lens == st.length_of_maxpath_from_node
        terminus == Size(X.g) - 1
        mean == FDiv(sums[considered_outnode + 1], lens[considered_outnode + 1])
        is_terminus_and_most_likely ==
            considered_outnode = terminus /\ GreaterByTolerance(Fin(X.p.thresh), st.max_mean)
        avg_log_likelihood_is_most_likely == GreaterByTolerance(mean, st.max_mean)
        avg_log_likelihood_is_close_to_most_likely == WithinTolerance(st.max_mean, mean)
        is_longer_path == lens[considered_outnode + 1] > st.max_length
        counted == [st EXCEPT !.steps = @ + 1]
    IN  IF ~(is_terminus_and_most_likely \/ avg_log_likelihood_is_most_likely
             \/ (avg_log_likelihood_is_close_to_most_likely /\ is_longer_path))
        THEN counted
        ELSE
        LET here == get_prob(X, current_node)
            prev1 == [st.prev_node_along_maxpath EXCEPT ![current_node + 1] = considered_outnode]
            len1 == 1 + lens[considered_outnode + 1]
            sum1 == FAdd(here.value, sums[considered_outnode + 1])
            truncated == len1 > X.max_num_kmers_to_average
            tail == nth_prev(prev1, prev1[current_node + 1], X.max_num_kmers_to_average)
            there == get_prob(X, tail)
            sum2 == IF truncated THEN FSub(sum1, there.value) ELSE sum1
            len2 == IF truncated THEN len1 - 1 ELSE len1
            mean2 == IF considered_outnode # terminus THEN mean ELSE Fin(X.p.thresh)
            length2 == IF considered_outnode # terminus
                       THEN lens[considered_outnode + 1] ELSE st.max_length
        IN  IF here.result # "ok"
            THEN [counted EXCEPT !.result = "failed", !.probes = @ + 1]
            ELSE IF truncated /\ there.result # "ok"
            THEN [counted EXCEPT !.result = "failed", !.probes = @ + 2]
            ELSE IF truncated /\ ~(len2 = X.max_num_kmers_to_average)
            THEN [counted EXCEPT !.result = "failed", !.probes = @ + 2]
            ELSE [counted EXCEPT
                    !.max_sum_of_log_probs_from_node[current_node + 1] = sum2,
                    !.length_of_maxpath_from_node[current_node + 1] = len2,
                    !.prev_node_along_maxpath = prev1,
                    !.max_mean = mean2,
                    !.max_length = length2,
                    !.probes = @ + (IF truncated THEN 2 ELSE 1)]

\* the inner loop of find_max_path over the out-neighbours i, i+1, ... of
\* current_node
RECURSIVE dp_edges(_, _, _, _)
dp_edges(X, st, current_node, i) ==
    IF st.result # "ok" \/ i > Len(At(X.g, current_node).outNodes) THEN st
    ELSE dp_edges(X, dp_edge(X, st, current_node, At(X.g, current_node).outNodes[i]),
                  current_node, i + 1)

\* the outer loop of find_max_path: for (j = sorted_nodes.size() - 1; j != 0; --j)
RECURSIVE dp_nodes(_, _, _)
dp_nodes(X, st, j) ==
    IF st.result # "ok" \/ j = 0 THEN st
    ELSE dp_nodes(X,
                  dp_edges(X, [st EXCEPT !.max_mean = Lowest, !.max_length = 0], j - 1, 1),
                  j - 1)

\* the path extraction loops: the nodes from prev_node on, up to the
\* terminus; a walk longer than the graph never reaches the terminus and
\* ends in the fatal error of the 1000000-step guard
RECURSIVE follow_prev(_, _, _, _, _)
follow_prev(prev, prev_node, terminus, maxpath, fuel) ==
    IF ~(prev_node < terminus) THEN [result |-> "ok", maxpath |-> maxpath]
    ELSE IF fuel = 0 THEN [result |-> "failed", maxpath |-> maxpath]
    ELSE follow_prev(prev, prev[prev_node + 1], terminus, Append(maxpath, prev_node), fuel - 1)

\* what a max-path solver hands back: the float returned (sum / len, or
\* lowest()), the vector maxpath, the number of get_prob calls made and of
\* dynamic-programming steps taken, how the loop ended, and the tables
Solved(result, sum, len, maxpath, probes, st) ==
    [result |-> result, sum |-> sum, len |-> len, maxpath |-> maxpath,
     probes |-> probes, steps |-> st.steps, loop |-> st.result,
     lengths |-> st.length_of_maxpath_from_node,
     sums |-> st.max_sum_of_log_probs_from_node,
     prev |-> st.prev_node_along_maxpath]

\* a mutant of find_max_path: the test of all-zero coverage is missing
find_max_path_noshortcut(X, maxpath) ==
    IF check(X.g, <<0, 0>>) # "ok"
    THEN Solved("failed", NaN, <<0, 0>>, maxpath, 0, dp_start(X))
    ELSE LET st == dp_nodes(X, dp_start(X), Size(X.g) - 1)
             path == follow_prev(st.prev_node_along_maxpath, st.prev_node_along_maxpath[1],
                                 Size(X.g) - 1, maxpath, Size(X.g))
             p == prob_path(X, path.maxpath)
         IN  IF st.result # "ok" THEN Solved("failed", NaN, <<0, 0>>, maxpath, st.probes, st)
             ELSE IF path.result # "ok" \/ ~(st.length_of_maxpath_from_node[1] > 0)
             THEN Solved("failed", NaN, <<0, 0>>, path.maxpath, st.probes, st)
             ELSE Solved(p.result, p.sum, p.len, path.maxpath, st.probes + p.probes, st)

\* a mutant of find_max_path: the test for a path through the graph is
\* missing
find_max_path_nopathtest(X, maxpath) ==
    IF check(X.g, <<0, 0>>) # "ok"
    THEN Solved("failed", NaN, <<0, 0>>, maxpath, 0, dp_start(X))
    ELSE IF coverage_is_zeroes(X)
    THEN Solved("ok", Lowest, <<0, 1>>, maxpath, 0, dp_start(X))
    ELSE LET st == dp_nodes(X, dp_start(X), Size(X.g) - 1)
             path == follow_prev(st.prev_node_along_maxpath, st.prev_node_along_maxpath[1],
                                 Size(X.g) - 1, maxpath, Size(X.g))
             p == prob_path(X, path.maxpath)
         IN  IF st.result # "ok" THEN Solved("failed", NaN, <<0, 0>>, maxpath, st.probes, st)
             ELSE IF path.result # "ok"
             THEN Solved("failed", NaN, <<0, 0>>, path.maxpath, st.probes, st)
             ELSE Solved(p.result, p.sum, p.len, path.maxpath, st.probes + p.probes, st)

\* KmerGraphWithCoverage::find_max_path(maxpath, prob_model,
\* max_num_kmers_to_average, sample_id)
find_max_path(X, maxpath) ==
    IF check(X.g, <<0, 0>>) # "ok"
    THEN Solved("failed", NaN, <<0, 0>>, maxpath, 0, dp_start(X))
    ELSE IF coverage_is_zeroes(X)
    THEN Solved("ok", Lowest, <<0, 1>>, maxpath, 0, dp_start(X))
    ELSE LET st == dp_nodes(X, dp_start(X), Size(X.g) - 1)
             path == follow_prev(st.prev_node_along_maxpath, st.prev_node_along_maxpath[1],
                                 Size(X.g) - 1, maxpath, Size(X.g))
             p == prob_path(X, path.maxpath)
         IN  IF st.result # "ok" THEN Solved("failed", NaN, <<0, 0>>, maxpath, st.probes, st)
             ELSE IF path.result # "ok" \/ ~(st.length_of_maxpath_from_node[1] > 0)
             THEN Solved("failed", NaN, <<0, 0>>, path.maxpath, st.probes, st)
             ELSE Solved(p.result, p.sum, p.len, path.maxpath, st.probes + p.probes, st)

\* KmerGraphWithCoverage::extract_path(considered_outnode,
\* prev_node_along_maxpath, terminus_node_id)
extract_path(X, considered_outnode, prev, terminus) ==
    follow_prev(prev, prev[considered_outnode + 1], terminus, <<considered_outnode>>, Size(X.g))

\* the order of std::map<std::string, uint32_t> on the names of two nodes,
\* their ids in decimal
NameLess(a, b) ==
    LET x == Digits(U32(a))
        y == Digits(U32(b))
    IN  \/ \E i \in 1..Len(x) :
              /\ i <= Len(y)
              /\ \A j \in 1..(i - 1) : x[j] = y[j]
              /\ x[i] < y[i]
        \/ (Len(x) < Len(y) /\ \A j \in 1..Len(x) : x[j] = y[j])

\* the neighbour most reads map to: hits[o + 1] is the number of primary
\* alignments to the sequence named after out-neighbour o; -1 when there
\* is no alignment at all
most_mapped_neighbour(outs, hits) ==
    LET named == {outs[i] : i \in 1..Len(outs)}
        mapped == {o \in named : hits[o + 1] > 0}
        best == {o \in mapped : \A q \in mapped : hits[q + 1] <= hits[o + 1]}
    IN  IF mapped = {} THEN -1
        ELSE CHOOSE o \in best : \A q \in best : q = o \/ NameLess(o, q)

\* the most covered neighbour: the first of the out list with the largest
\* forward + reverse coverage
RECURSIVE most_covered_neighbour(_, _, _, _, _)
most_covered_neighbour(X, outs, i, max_coverage, ML_neighbour) ==
    IF i > Len(outs) THEN ML_neighbour
    ELSE LET coverage == sum_coverages(X.c, outs[i], X.sample_id) IN
         IF coverage > max_coverage
         THEN most_covered_neighbour(X, outs, i + 1, coverage, outs[i])
         ELSE most_covered_neighbour(X, outs, i + 1, max_coverage, ML_neighbour)

\* the body of the loop of find_max_path_with_base_level_mapping for
\* current_node: the table prev_node_along_maxpath after it
mapping_step(X, prev, current_node, hits) ==
    LET outs == At(X.g, current_node).outNodes
        terminus == Size(X.g) - 1
        mapped == most_mapped_neighbour(outs, hits)
        ML_outnode ==
            IF Len(outs) = 1 THEN outs[1]
            ELSE IF mapped # -1 THEN mapped
            ELSE IF \E i \in 1..Len(outs) : outs[i] = terminus THEN terminus
            ELSE most_covered_neighbour(X, outs, 1, -1, -1)
    IN  IF Len(outs) = 0 THEN prev
        ELSE [prev EXCEPT ![current_node + 1] = ML_outnode]

\* the loop of find_max_path_with_base_level_mapping, from j down to 1
RECURSIVE mapping_steps(_, _, _, _)
mapping_steps(X, st, j, hits) ==
    IF j = 0 THEN st
    ELSE mapping_steps(X,
            [st EXCEPT !.prev_node_along_maxpath = mapping_step(X, @, j - 1, hits),
                       !.steps = @ + 1],
            j - 1, hits)

\* KmerGraphWithCoverage::find_max_path_with_base_level_mapping(maxpath,
\* prob_model, max_num_kmers_to_average, sample_id, ...); the outcome of
\* mapping the reads of the locus with minimap2 is the argument hits
find_max_path_with_base_level_mapping(X, maxpath, hits) ==
    IF check(X.g, <<0, 0>>) # "ok"
    THEN Solved("failed", NaN, <<0, 0>>, maxpath, 0, dp_start(X))
    ELSE IF coverage_is_zeroes(X)
    THEN Solved("ok", Lowest, <<0, 1>>, maxpath, 0, dp_start(X))
    ELSE LET st == mapping_steps(X, dp_start(X), Size(X.g) - 1, hits)
             path == extract_path(X, 0, st.prev_node_along_maxpath, Size(X.g) - 1)
             p == prob_path(X, maxpath \o path.maxpath)
         IN  IF path.result # "ok"
             THEN Solved("failed", NaN, <<0, 0>>, maxpath, 0, st)
             ELSE Solved(p.result, p.sum, p.len, maxpath \o path.maxpath, p.probes, st)

\* one walk of get_random_paths from node v on: the set of node lists the
\* random choices can produce.  A walk that reaches a node without
\* out-neighbours computes rand() % 0 ("undefined"); a walk of more steps
\* than the graph has nodes has entered a cycle and need not end
\* ("diverges").
RECURSIVE walks_from(_, _, _)
walks_from(G, v, fuel) ==
    IF v = Size(G) - 1 THEN {[result |-> "ok", rpath |-> <<v>>]}
    ELSE IF fuel = 0 THEN {[result |-> "diverges", rpath |-> <<v>>]}
    ELSE IF Len(At(G, v).outNodes) = 0 THEN {[result |-> "undefined", rpath |-> <<v>>]}
    ELSE UNION {{[result |-> w.result, rpath |-> <<v>> \o w.rpath] :
                    w \in walks_from(G, At(G, v).outNodes[i], fuel - 1)} :
                i \in 1..Len(At(G, v).outNodes)}

\* a mutant of random_walks: the sink stays at the end of the list
random_walks_keepsink(G) ==
    IF Len(At(G, 0).outNodes) = 0 THEN {[result |-> "undefined", rpath |-> <<>>]}
    ELSE UNION {walks_from(G, At(G, 0).outNodes[i], Size(G)) : i \in 1..Len(At(G, 0).outNodes)}

\* the body of the loop of get_random_paths: the lists one walk can leave
\* in rpath (the sink reached is popped off)
random_walks(G) ==
    IF Len(At(G, 0).outNodes) = 0 THEN {[result |-> "undefined", rpath |-> <<>>]}
    ELSE {[result |-> w.result,
           rpath |-> IF w.result = "ok" THEN SubSeq(w.rpath, 1, Len(w.rpath) - 1) ELSE w.rpath] :
             w \in UNION {walks_from(G, At(G, 0).outNodes[i], Size(G)) :
                             i \in 1..Len(At(G, 0).outNodes)}}

\* KmerGraphWithCoverage::get_random_paths(num_paths): the outcomes the
\* random choices allow
get_random_paths(G, num_paths) ==
    IF Size(G) = 0 THEN {[result |-> "ok", rpaths |-> <<>>]}
    ELSE {[result |-> IF \A j \in 1..num_paths : ws[j].result = "ok" THEN "ok"
                      ELSE IF \E j \in 1..num_paths : ws[j].result = "diverges" THEN "diverges"
                      ELSE "undefined",
           rpaths |-> [j \in 1..num_paths |-> ws[j].rpath]] :
             ws \in [1..num_paths -> random_walks(G)]}

----------------------------------------------------------------------------
(* KmerGraphWithCoverage::load.  A file is a sequence of lines, a line the  *)
(* sequence of its tab-separated fields, as in KmerGraph::save above.  A    *)
(* coverage field is [tag, digits], printed as the tag followed by the      *)
(* digits.                                                                 *)

\* std::stoul on a string of digits
RECURSIVE stoul_from(_, _, _)
stoul_from(digits, i, acc) ==
    IF i > Len(digits) THEN acc ELSE stoul_from(digits, i + 1, acc * 10 + digits[i])

\* (uint16_t)(stoul(split(field, tag)[0])): split removes the tag where the
\* field holds it, so that [0] is the digits; a field with another tag is
\* left whole, starts with a letter, and stoul throws std::invalid_argument
covg_of_field(field, tag) ==
    IF field.tag = tag
    THEN [result |-> "ok", value |-> stoul_from(field.digits, 1, 0) % (UINT16_MAX + 1)]
    ELSE [result |-> "failed", value |-> 0]

\* the first pass of load from line i on: num_nodes, the largest id of an
\* S line
RECURSIVE count_segments(_, _, _)
count_segments(file, i, num_nodes) ==
    IF i > Len(file) THEN [result |-> "ok", num_nodes |-> num_nodes]
    ELSE IF file[i][1] # "S" THEN count_segments(file, i + 1, num_nodes)
    ELSE IF ~(Len(file[i]) >= 4) THEN [result |-> "failed", num_nodes |-> num_nodes]
    ELSE LET id == stoi(file[i][2]) IN
         IF ~id.in_range THEN [result |-> "failed", num_nodes |-> num_nodes]
         ELSE count_segments(file, i + 1, IF id.value > num_nodes THEN id.value ELSE num_nodes)

\* a path field that holds a sequence of bases: it has no leading count
SequenceField == [n |-> -1, intervals |-> <<>>]

\* isdigit(ss.peek()) on a path field
isdigit_peek(field) == field.n >= 0

\* id_is_consistent of the second pass
id_is_consistent(id, size, num_nodes) == id = size \/ num_nodes - id = size

\* the second pass of load from line i on; st holds the node vector, the
\* counters of sample 0, the id read last and the outcome
RECURSIVE read_segments(_, _, _, _)
read_segments(file, i, num_nodes, st) ==
    IF st.result # "ok" \/ i > Len(file) THEN st
    ELSE IF file[i][1] = "S"
    THEN IF ~(Len(file[i]) >= 4) THEN [st EXCEPT !.result = "failed"]
         ELSE LET id == stoi(file[i][2]).value
                  fwd == covg_of_field(file[i][4], "FC:i:")
                  rev == covg_of_field(file[i][5], "RC:i:")
                  pushed == [st EXCEPT !.nodes = Append(@, KmerNode(id, PathFromString(file[i][3]))),
                                       !.id = id]
              IN  IF ~isdigit_peek(file[i][3]) THEN [st EXCEPT !.result = "failed", !.id = id]
                  ELSE IF ~id_is_consistent(id, Len(st.nodes), num_nodes)
                  THEN [st EXCEPT !.result = "failed", !.id = id]
                  ELSE IF fwd.result # "ok" THEN [pushed EXCEPT !.result = "failed"]
                  ELSE IF Len(file[i]) < 5
                  THEN [pushed EXCEPT !.c[id + 1][1][1] = fwd.value, !.result = "undefined"]
                  ELSE IF rev.result # "ok"
                  THEN [pushed EXCEPT !.c[id + 1][1][1] = fwd.value, !.result = "failed"]
                  ELSE read_segments(file, i + 1, num_nodes,
                          [pushed EXCEPT !.c[id + 1][1] = <<fwd.value, rev.value>>])
    ELSE IF file[i][1] = "L"
    THEN IF ~(Len(file[i]) >= 5) THEN [st EXCEPT !.result = "failed"]
         ELSE IF ~(stoi(file[i][2]).value < num_nodes + 1 /\ stoi(file[i][4]).value < num_nodes + 1)
         THEN [st EXCEPT !.result = "failed"]
         ELSE read_segments(file, i + 1, num_nodes, st)
    ELSE read_segments(file, i + 1, num_nodes, st)

\* reverse(kmer_prg->nodes.begin(), kmer_prg->nodes.end())
Reverse(s) == [i \in 1..Len(s) |-> s[Len(s) + 1 - i]]

\* the third pass of load from line i on: the edges of the L lines
RECURSIVE read_links(_, _, _)
read_links(G, file, i) ==
    IF i > Len(file) THEN [g |-> G, result |-> "ok"]
    ELSE IF file[i][1] # "L" THEN read_links(G, file, i + 1)
    ELSE LET same == file[i][3] = file[i][5]
             from == IF same THEN stoi(file[i][2]).value ELSE stoi(file[i][4]).value
             to == IF same THEN stoi(file[i][4]).value ELSE stoi(file[i][2]).value
         IN  IF from < Size(G) /\ to < Size(G)
             THEN read_links((CHOOSE o \in add_edge_id(G, from, to) : TRUE).g, file, i + 1)
             ELSE [g |-> G, result |-> "undefined"]

\* a mutant of load_with_coverage: the node vector is never reversed
load_with_coverage_noreverse(file) ==
    LET first == count_segments(file, 1, 0)
        start == [nodes |-> <<>>,
                  c |-> [n \in 1..(first.num_nodes + 1) |-> << <<0, 0>> >>],
                  id |-> 0, result |-> "ok"]
        second == read_segments(file, 1, first.num_nodes, start)
        nodes == second.nodes
        G == [nodes |-> nodes, next_id |-> 0]
    IN  IF first.result # "ok" THEN [g |-> EmptyGraph, c |-> <<>>, result |-> "failed"]
        ELSE IF second.result # "ok"
        THEN [g |-> [nodes |-> second.nodes, next_id |-> 0], c |-> second.c, result |-> second.result]
        ELSE IF ~(\A i \in 1..Len(nodes) : nodes[i].id = i - 1 /\ nodes[i].id < first.num_nodes + 1)
        THEN [g |-> G, c |-> second.c, result |-> "failed"]
        ELSE LET third == read_links(G, file, 1) IN
             [g |-> third.g, c |-> second.c, result |-> third.result]

\* KmerGraphWithCoverage::load(filepath), the file holding the lines file:
\* the graph and the counters it leaves and its outcome
load_with_coverage(file) ==
    LET first == count_segments(file, 1, 0)
        start == [nodes |-> <<>>,
                  c |-> [n \in 1..(first.num_nodes + 1) |-> << <<0, 0>> >>],
                  id |-> 0, result |-> "ok"]
        second == read_segments(file, 1, first.num_nodes, start)
        nodes == IF second.id = 0 THEN Reverse(second.nodes) ELSE second.nodes
        G == [nodes |-> nodes, next_id |-> 0]
    IN  IF first.result # "ok" THEN [g |-> EmptyGraph, c |-> <<>>, result |-> "failed"]
        ELSE IF second.result # "ok"
        THEN [g |-> [nodes |-> second.nodes, next_id |-> 0], c |-> second.c, result |-> second.result]
        ELSE IF ~(\A i \in 1..Len(nodes) : nodes[i].id = i - 1 /\ nodes[i].id < first.num_nodes + 1)
        THEN [g |-> G, c |-> second.c, result |-> "failed"]
        ELSE LET third == read_links(G, file, 1) IN
             [g |-> third.g, c |-> second.c, result |-> third.result]

----------------------------------------------------------------------------
(* The parameters of the negative binomial model.  A float parameter is a   *)
(* fraction <<n, d>> with d > 0, kept in lowest terms.                      *)

RECURSIVE Gcd(_, _)
Gcd(a, b) == IF b = 0 THEN a ELSE Gcd(b, a % b)

\* the fraction n / d in lowest terms
Fraction(n, d) ==
    LET g == Gcd(IF n < 0 THEN -n ELSE n, d) IN
    IF n = 0 THEN <<0, 1>> ELSE <<n \div g, d \div g>>

\* x + y of two fractions
FractionAdd(x, y) == Fraction(x[1] * y[2] + y[1] * x[2], x[2] * y[2])

\* negative_binomial_parameters_were_previously_set
negative_binomial_parameters_were_previously_set(P) ==
    /\ P.negative_binomial_parameter_p[1] > 0
    /\ P.negative_binomial_parameter_p[1] < P.negative_binomial_parameter_p[2]
    /\ P.negative_binomial_parameter_r > 0

\* KmerGraphWithCoverage::set_negative_binomial_parameters(nbin_prob, nb_fail),
\* its first argument written nb_prob
set_negative_binomial_parameters(P, nb_prob, nb_fail) ==
    IF nb_prob[1] = 0 /\ nb_fail = 0 THEN [p |-> P, result |-> "ok"]
    ELSE IF ~negative_binomial_parameters_were_previously_set(P)
    THEN [p |-> P, result |-> "failed"]
    ELSE [p |-> [P EXCEPT !.negative_binomial_parameter_p = FractionAdd(@, nb_prob),
                          !.negative_binomial_parameter_r = @ + nb_fail],
          result |-> "ok"]

----------------------------------------------------------------------------
(* The calls                                                               *)

\* the parameters of a KmerGraphWithCoverage after construction: no reads
\* counted, the binomial p unset (1, kept as the fraction <<1, 1>>) and the
\* negative binomial parameters p (a fraction) and r at valid values
NewParams ==
    [num_reads |-> 0, binomial_parameter_p |-> <<1, 1>>,
     negative_binomial_parameter_p |-> <<1, 2>>, negative_binomial_parameter_r |-> 1,
     thresh |-> -25000000]

NoFile == <<"no file">>

Call(op, args, result, ret, pre) ==
    [op |-> op, args |-> args, result |-> result, ret |-> ret, pre |-> pre]

\* the process is still running, in a defined state
Alive == last.result = "ok"

\* an add_edge call may add references while the model's bound allows it
Room(G) == NumEdges(G) < 2 * MaxEdges

Init ==
    /\ kg = EmptyGraph
    /\ kg2 = EmptyGraph
    /\ gfa = NoFile
    /\ covgs = zeroCoverages
    /\ calls = 0
    /\ pars = NewParams
    /\ argv = <<>>
    /\ kmer_prob_dist = <<>>
    /\ peaks = NoPeaks
    /\ last = Call("new", <<>>, "ok", <<>>, EmptyGraph)

AddNode(p) ==
    /\ Alive
    /\ kg' = add_node(kg, p)
    /\ last' = Call("add_node", <<p>>, "ok", <<>>, kg)
    /\ UNCHANGED <<pars, kg2, gfa, covgs, calls, argv, kmer_prob_dist, peaks>>

AddEdgeId(from, to) ==
    /\ Alive
    /\ Room(kg)
    /\ \E o \in add_edge_id(kg, from, to) :
          /\ kg' = o.g
          /\ last' = Call("add_edge_id", <<from, to>>, o.result, <<>>, kg)
    /\ UNCHANGED <<pars, kg2, gfa, covgs, calls, argv, kmer_prob_dist, peaks>>

AddEdgePath(from, to) ==
    /\ Alive
    /\ Room(kg)
    /\ LET o == add_edge_path(kg, from, to) IN
          /\ kg' = o.g
          /\ last' = Call("add_edge_path", <<from, to>>, o.result, <<>>, kg)
    /\ UNCHANGED <<pars, kg2, gfa, covgs, calls, argv, kmer_prob_dist, peaks>>

Clear ==
    /\ Alive
    /\ kg' = clear(kg)
    /\ last' = Call("clear", <<>>, "ok", <<>>, kg)
    /\ UNCHANGED <<pars, kg2, gfa, covgs, calls, argv, kmer_prob_dist, peaks>>

GetNodeOrder ==
    /\ Alive
    /\ LET r == get_node_order(kg) IN
          last' = Call("get_node_order", <<>>, r.result, r.order, kg)
    /\ UNCHANGED <<pars, kg, kg2, gfa, covgs, calls, argv, kmer_prob_dist, peaks>>

Check(num_minikmers) ==
    /\ Alive
    /\ last' = Call("check", <<num_minikmers>>, check(kg, num_minikmers), <<>>, kg)
    /\ UNCHANGED <<pars, kg, kg2, gfa, covgs, calls, argv, kmer_prob_dist, peaks>>

\* values check is called with: 0, small counts, and the two largest uints
MiniKmerCounts == {<<0, 0>>, <<0, 1>>, <<0, 2>>, <<HALF - 1, HALF - 2>>, <<HALF - 1, HALF - 1>>}

\* indices the id form of add_edge is called with: valid ones, nodes.size()
\* and beyond
Ids == 0..(Cardinality(Paths) + 1)

Next ==
    \/ \E p \in Paths : AddNode(p)
    \/ \E from \in Ids, to \in Ids : AddEdgeId(from, to)
    \/ \E from \in Paths, to \in Paths : AddEdgePath(from, to)
    \/ Clear
    \/ GetNodeOrder
    \/ \E n \in MiniKmerCounts : Check(n)

Spec == Init /\ [][Next]_vars

----------------------------------------------------------------------------
(* Two graphs and their comparison (specification SpecEq)                   *)

\* the two graphs together hold at most MaxEqEdges edges
RoomEq == NumEdges(kg) + NumEdges(kg2) < 2 * MaxEqEdges

\* SpecEq records which call was made, not the graph it was made on
AddNode1(p) ==
    /\ Alive
    /\ kg' = add_node(kg, p)
    /\ last' = Call("add_node", <<1>>, "ok", <<>>, EmptyGraph)
    /\ UNCHANGED <<pars, kg2, gfa, covgs, calls, argv, kmer_prob_dist, peaks>>

AddNode2(p) ==
    /\ Alive
    /\ kg2' = add_node(kg2, p)
    /\ last' = Call("add_node", <<2>>, "ok", <<>>, EmptyGraph)
    /\ UNCHANGED <<pars, kg, gfa, covgs, calls, argv, kmer_prob_dist, peaks>>

AddEdgePath1(from, to) ==
    /\ Alive
    /\ RoomEq
    /\ LET o == add_edge_path(kg, from, to) IN
          /\ kg' = o.g
          /\ last' = Call("add_edge_path", <<1>>, o.result, <<>>, EmptyGraph)
    /\ UNCHANGED <<pars, kg2, gfa, covgs, calls, argv, kmer_prob_dist, peaks>>

AddEdgePath2(from, to) ==
    /\ Alive
    /\ RoomEq
    /\ LET o == add_edge_path(kg2, from, to) IN
          /\ kg2' = o.g
          /\ last' = Call("add_edge_path", <<2>>, o.result, <<>>, EmptyGraph)
    /\ UNCHANGED <<pars, kg, gfa, covgs, calls, argv, kmer_prob_dist, peaks>>

\* kg == kg2 and kg2 == kg
Equals ==
    /\ Alive
    /\ last' = Call("equals", <<>>, "ok", <<equals(kg, kg2), equals(kg2, kg)>>, EmptyGraph)
    /\ UNCHANGED <<pars, kg, kg2, gfa, covgs, calls, argv, kmer_prob_dist, peaks>>

NextEq ==
    \/ \E p \in Paths : AddNode1(p)
    \/ \E p \in Paths : AddNode2(p)
    \/ \E from \in Paths, to \in Paths : AddEdgePath1(from, to)
    \/ \E from \in Paths, to \in Paths : AddEdgePath2(from, to)
    \/ Equals

SpecEq == Init /\ [][NextEq]_vars

----------------------------------------------------------------------------
(* A graph is built, saved and loaded into kg2 (specification SpecGfa)      *)

\* coverages written to a node: 5 as in the tests, INT_MAX and INT_MAX + 1
CovgValues == {<<0, 5>>, <<32767, 65535>>, <<32768, 0>>}

Building == gfa = NoFile

\* the graph holds at most MaxGfaEdges edges
RoomGfa == NumEdges(kg) < 2 * MaxGfaEdges

\* SpecGfa records which call was made, not the graph it was made on
BuildNode(p) ==
    /\ Alive
    /\ Building
    /\ kg' = add_node(kg, p)
    /\ last' = Call("add_node", <<>>, "ok", <<>>, EmptyGraph)
    /\ UNCHANGED <<pars, kg2, gfa, covgs, calls, argv, kmer_prob_dist, peaks>>

BuildEdge(from, to) ==
    /\ Alive
    /\ Building
    /\ RoomGfa
    /\ \E o \in add_edge_id(kg, from, to) :
          /\ kg' = o.g
          /\ last' = Call("add_edge_id", <<>>, o.result, <<>>, EmptyGraph)
    /\ UNCHANGED <<pars, kg2, gfa, covgs, calls, argv, kmer_prob_dist, peaks>>

\* kg.nodes[i]->covg += v on a node without coverage
AddCovg(i, v) ==
    /\ Alive
    /\ Building
    /\ i < Size(kg)
    /\ At(kg, i).covg = <<0, 0>>
    /\ kg' = [kg EXCEPT !.nodes[i + 1].covg = v]
    /\ last' = Call("covg", <<>>, "ok", <<>>, EmptyGraph)
    /\ UNCHANGED <<pars, kg2, gfa, covgs, calls, argv, kmer_prob_dist, peaks>>

Save ==
    /\ Alive
    /\ Building
    /\ gfa' = save(kg)
    /\ last' = Call("save", <<>>, "ok", <<>>, EmptyGraph)
    /\ UNCHANGED <<pars, kg, kg2, covgs, calls, argv, kmer_prob_dist, peaks>>

Load ==
    /\ Alive
    /\ last.op = "save"
    /\ LET r == load(kg2, gfa) IN
          /\ kg2' = r.g
          /\ last' = Call("load", <<>>, r.result, <<>>, EmptyGraph)
    /\ UNCHANGED <<pars, kg, gfa, covgs, calls, argv, kmer_prob_dist, peaks>>

NextGfa ==
    \/ \E p \in Paths : BuildNode(p)
    \/ \E from \in Ids, to \in Ids : BuildEdge(from, to)
    \/ \E i \in 0..(Cardinality(Paths) - 1), v \in CovgValues : AddCovg(i, v)
    \/ Save
    \/ Load

SpecGfa == Init /\ [][NextGfa]_vars

----------------------------------------------------------------------------
(* Coverage calls (specification SpecCovg)                                 *)

\* values set_covg is called with
SetValues == {1, UINT16_MAX - 1, UINT16_MAX}

\* sample ids: the allocated slots and the first one beyond them
SampleIds == 0..NumSamples

IncrementCovg(node_id, strand, sample_id) ==
    /\ Alive
    /\ calls < MaxCalls
    /\ LET r == increment_covg(covgs, node_id, strand, sample_id) IN
          /\ covgs' = r.c
          /\ last' = Call("increment_covg", <<node_id, strand, sample_id>>, r.result, <<>>, covgs)
    /\ calls' = calls + 1
    /\ UNCHANGED <<pars, kg, kg2, gfa, argv, kmer_prob_dist, peaks>>

SetCovg(node_id, value, strand, sample_id) ==
    /\ Alive
    /\ calls < MaxCalls
    /\ LET r == set_covg(covgs, node_id, value, strand, sample_id) IN
          /\ covgs' = r.c
          /\ last' = Call("set_covg", <<node_id, value, strand, sample_id>>, r.result, <<>>, covgs)
    /\ calls' = calls + 1
    /\ UNCHANGED <<pars, kg, kg2, gfa, argv, kmer_prob_dist, peaks>>

GetCovg(node_id, strand, sample_id) ==
    /\ Alive
    /\ calls < MaxCalls
    /\ last' = Call("get_covg", <<node_id, strand, sample_id>>, "ok",
                    get_covg(covgs, node_id, strand, sample_id), covgs)
    /\ calls' = calls + 1
    /\ UNCHANGED <<pars, kg, kg2, gfa, covgs, argv, kmer_prob_dist, peaks>>

NextCovg ==
    \/ \E n \in 0..(CovgNodes - 1), st \in Strands, sa \in SampleIds :
          IncrementCovg(n, st, sa)
    \/ \E n \in 0..(CovgNodes - 1), v \in SetValues, st \in Strands, sa \in SampleIds :
          SetCovg(n, v, st, sa)
    \/ \E n \in 0..(CovgNodes - 1), st \in Strands, sa \in SampleIds :
          GetCovg(n, st, sa)

SpecCovg == Init /\ [][NextCovg]_vars

----------------------------------------------------------------------------
(* Notions the properties are stated in                                    *)

HasPath(G, p) == \E i \in 1..Len(G.nodes) : G.nodes[i].path = p

NodeIds(G) == 0..(Size(G) - 1)

\* the edges of G as pairs of node positions, read from the out lists
EdgesOf(G) == {e \in NodeIds(G) \X NodeIds(G) : Contains(At(G, e[1]).outNodes, e[2])}

\* the edges of G as pairs of paths
PathEdgesOf(G) == {<<At(G, e[1]).path, At(G, e[2]).path>> : e \in EdgesOf(G)}

PathsOf(G) == {G.nodes[i].path : i \in 1..Len(G.nodes)}

NoSharedPath(G) ==
    \A i, j \in 1..Len(G.nodes) : G.nodes[i].path = G.nodes[j].path => i = j

\* out and in lists mirror each other and hold no reference twice
Mirrored(G) ==
    \A u, v \in NodeIds(G) :
        /\ Count(At(G, u).outNodes, v) = Count(At(G, v).inNodes, u)
        /\ Count(At(G, u).outNodes, v) <= 1

NoDangling(G) ==
    \A i \in 1..Len(G.nodes) :
        /\ ~Contains(G.nodes[i].outNodes, Dangling)
        /\ ~Contains(G.nodes[i].inNodes, Dangling)

\* the KmerGraph invariants of the data model: distinct paths, node 0 the
\* only node without in-edge, the last node the only one without out-edge,
\* and insertion order topological (hence acyclic, source first, sink last)
ValidGraph(G) ==
    /\ NoSharedPath(G)
    /\ NoDangling(G)
    /\ Mirrored(G)
    /\ \A i \in NodeIds(G) : G.nodes[i + 1].id = i
    /\ \A e \in EdgesOf(G) : e[1] < e[2]
    /\ \A i \in NodeIds(G) :
          /\ i # 0 => Len(At(G, i).inNodes) > 0
          /\ i # Size(G) - 1 => Len(At(G, i).outNodes) > 0

\* the bubble level of the node at position i: bubble starts before it minus
\* bubble ends up to and including it
Level(G, i) ==
    Cardinality({j \in 0..(i - 1) : Len(At(G, j).outNodes) > 1})
    - Cardinality({j \in 0..i : Len(At(G, j).inNodes) > 1})

\* the position of node x in an order holding it once
Rank(order, x) == CHOOSE r \in 1..Len(order) : order[r] = x

\* the graph of the test getNodeOrder: nodes 0..6, its eight edges
OrderTestEdges ==
    << <<0, 1>>, <<1, 2>>, <<0, 3>>, <<3, 4>>, <<0, 5>>, <<2, 6>>, <<4, 6>>, <<5, 6>> >>

RECURSIVE order_test_nodes(_)
order_test_nodes(n) ==
    IF n = 0 THEN EmptyGraph
    ELSE add_node(order_test_nodes(n - 1), << <<n, n>> >>)

RECURSIVE order_test_graph(_)
order_test_graph(k) ==
    IF k = 0 THEN order_test_nodes(7)
    ELSE LET G == order_test_graph(k - 1)
         IN  (CHOOSE o \in add_edge_id(G, OrderTestEdges[k][1], OrderTestEdges[k][2]) : TRUE).g

----------------------------------------------------------------------------
(* Properties of the graph under construction (specification Spec)         *)

\* C1: add_node(p) appends a node carrying the next id only when no node has
\* path p; when a node with path p exists the call changes nothing; so no
\* two nodes of the graph ever share a path.
C1_AddNodeDedupes ==
    /\ NoSharedPath(kg)
    /\ last.op = "add_node" =>
          IF HasPath(last.pre, last.args[1])
          THEN kg = last.pre
          ELSE /\ kg.nodes = Append(last.pre.nodes,
                     [id |-> last.pre.next_id, path |-> last.args[1], covg |-> <<0, 0>>,
                      outNodes |-> <<>>, inNodes |-> <<>>])
               /\ kg.next_id = last.pre.next_id + 1

\* C1 witness: add_node was called with the path of a node that has edges
C1_Witness ==
    /\ last.op = "add_node"
    /\ HasPath(last.pre, last.args[1])
    /\ At(last.pre, find_path(last.pre, last.args[1])).outNodes # <<>>
    /\ Size(kg) = 2

\* C2 (as claimed): either form of add_edge fails whenever an endpoint is not
\* a node of the graph, and the failed call leaves all in/out lists unchanged.
C2_AddEdgeFailsOnMissingEndpoint ==
    /\ (/\ last.op = "add_edge_id"
        /\ ~(last.args[1] \in NodeIds(last.pre) /\ last.args[2] \in NodeIds(last.pre)))
       => (last.result = "failed" /\ kg = last.pre)
    /\ (/\ last.op = "add_edge_path"
        /\ ~(HasPath(last.pre, last.args[1]) /\ HasPath(last.pre, last.args[2])))
       => (last.result = "failed" /\ kg = last.pre)

\* C3: the edge relation is a mirrored set under any interleaving of the two
\* add_edge forms: v is in out(u) as often as u is in in(v), at most once;
\* repeating add_edge(a, b) changes no list.
C3_EdgesMirrored ==
    /\ Mirrored(kg)
    /\ (/\ last.op \in {"add_edge_id", "add_edge_path"}
        /\ last.result = "ok"
        /\ LET a == IF last.op = "add_edge_id" THEN last.args[1]
                    ELSE find_path(last.pre, last.args[1])
               b == IF last.op = "add_edge_id" THEN last.args[2]
                    ELSE find_path(last.pre, last.args[2])
           IN  <<a, b>> \in EdgesOf(last.pre))
       => kg = last.pre

\* C3 witness: an edge added by the path form was added again by the id form
C3_Witness ==
    /\ last.op = "add_edge_id"
    /\ last.result = "ok"
    /\ <<last.args[1], last.args[2]>> \in EdgesOf(last.pre)
    /\ kg = last.pre
    /\ Cardinality(EdgesOf(kg)) = 2

\* C5 (as claimed): in the order get_node_order returns for a graph that
\* satisfies the KmerGraph invariants every edge (u, v) has rank(u) < rank(v).
C5_OrderIsTopological ==
    (last.op = "get_node_order" /\ last.result = "ok" /\ ValidGraph(kg)) =>
        \A e \in EdgesOf(kg) : Rank(last.ret, e[1]) < Rank(last.ret, e[2])

\* C5 (amended): in that order an edge (u, v) has rank(u) < rank(v) exactly
\* when the bubble level of u is at least that of v; an edge into a deeper
\* level runs backwards in the order.
C5_OrderFollowsLevels ==
    (last.op = "get_node_order" /\ last.result = "ok" /\ ValidGraph(kg)) =>
        \A e \in EdgesOf(kg) :
            (Rank(last.ret, e[1]) < Rank(last.ret, e[2]))
                <=> (Level(kg, e[1]) >= Level(kg, e[2]))

\* C5 witness: a valid graph whose source opens a bubble was ordered
C5_Witness ==
    /\ last.op = "get_node_order"
    /\ last.result = "ok"
    /\ ValidGraph(kg)
    /\ \E e \in EdgesOf(kg) : Level(kg, e[1]) < Level(kg, e[2])
    /\ \E e \in EdgesOf(kg) : Level(kg, e[1]) = Level(kg, e[2])

\* C6: when get_node_order returns, the order holds every node exactly once,
\* by decreasing bubble level and, within a level, by insertion order; for
\* the graph of the test it is [1,2,3,4,5,0,6].
C6_OrderByLevel ==
    /\ (last.op = "get_node_order" /\ last.result = "ok") =>
          /\ Len(last.ret) = Size(kg)
          /\ \A x \in NodeIds(kg) : Count(last.ret, x) = 1
          /\ \A a, b \in 1..Len(last.ret) :
                a < b =>
                   \/ Level(kg, last.ret[a]) > Level(kg, last.ret[b])
                   \/ /\ Level(kg, last.ret[a]) = Level(kg, last.ret[b])
                      /\ last.ret[a] < last.ret[b]
    /\ last.op = "get_node_order" =>
          get_node_order(order_test_graph(8)) = [result |-> "ok", order |-> <<1, 2, 3, 4, 5, 0, 6>>]

\* C6 witness: an order over two levels was returned
C6_Witness ==
    /\ last.op = "get_node_order"
    /\ last.result = "ok"
    /\ Size(kg) = 3
    /\ Level(kg, last.ret[1]) = 1
    /\ Level(kg, last.ret[3]) = 0

\* C8: the node at position i has id i and next_id is the number of nodes;
\* clear() leaves the graph as the constructor does, so that the same calls
\* build the same graph again.
C8_IdIsPosition ==
    /\ \A i \in NodeIds(kg) : At(kg, i).id = i
    /\ kg.next_id = Size(kg)
    /\ last.op = "clear" => (Size(kg) = 0 /\ kg.next_id = 0 /\ kg = EmptyGraph)

\* C8 witness: a graph of two nodes and an edge was cleared
C8_Witness ==
    /\ last.op = "clear"
    /\ Size(last.pre) = 2
    /\ last.pre.next_id = 2
    /\ EdgesOf(last.pre) = {<<0, 1>>}

\* C9 (as claimed): check(num_minikmers) completes exactly when the graph
\* satisfies the KmerGraph invariants and, for num_minikmers > 0, has
\* num_minikmers + 2 nodes.
C9_CheckVerifiesInvariants ==
    last.op = "check" =>
        (last.result = "ok" <=>
            /\ ValidGraph(kg)
            /\ last.args[1] # <<0, 0>> =>
                  (last.args[1][1] = 0 /\ Size(kg) = last.args[1][2] + 2))

\* C9 (amended): check(num_minikmers) completes exactly when every node but
\* the first has an in-edge, every node but the last has an out-edge, and
\* num_minikmers is 0 or the number of nodes is num_minikmers + 2 taken
\* modulo 2^32; cycles and the order of the nodes are not examined.
C9_CheckVerifiesDegrees ==
    last.op = "check" =>
        (last.result = "ok" <=>
            /\ \A i \in NodeIds(kg) :
                  /\ i # 0 => At(kg, i).inNodes # <<>>
                  /\ i # Size(kg) - 1 => At(kg, i).outNodes # <<>>
            /\ \/ last.args[1] = <<0, 0>>
               \/ Size(kg) >= 2 /\ last.args[1] = <<0, Size(kg) - 2>>
               \/ Size(kg) = 1 /\ last.args[1] = <<HALF - 1, HALF - 1>>
               \/ Size(kg) = 0 /\ last.args[1] = <<HALF - 1, HALF - 2>>)

\* C9 witness: check passed on a graph with a cycle
C9_Witness ==
    /\ last.op = "check"
    /\ last.result = "ok"
    /\ last.args[1] = <<0, 1>>
    /\ \E e \in EdgesOf(kg) : e[1] >= e[2]

----------------------------------------------------------------------------
(* Properties of comparison, of the GFA round trip and of the counters      *)

\* C4 (as claimed): two KmerGraphs compare equal, in either direction,
\* exactly when they have the same set of node paths and the same set of
\* edges (as pairs of paths).
C4_EqualsIffSameNodesAndEdges ==
    last.op = "equals" =>
        LET same == /\ PathsOf(kg) = PathsOf(kg2)
                    /\ PathEdgesOf(kg) = PathEdgesOf(kg2)
        IN  /\ last.ret[1] <=> same
            /\ last.ret[2] <=> same

\* the same nodes (id, path, coverage) in the same order, and the same edges
SameGraph(G, H) ==
    /\ Size(G) = Size(H)
    /\ \A i \in NodeIds(G) :
          /\ At(G, i).id = At(H, i).id
          /\ At(G, i).path = At(H, i).path
          /\ At(G, i).covg = At(H, i).covg
    /\ EdgesOf(G) = EdgesOf(H)

\* C7 (as claimed): for every valid graph kg, loading the file written by
\* save(kg) into the empty graph kg2 succeeds and yields the same node ids
\* and paths in the same order, the same coverage and the same edges.
C7_LoadOfSaveIsEqual ==
    (last.op = "load" /\ ValidGraph(kg)) =>
        (last.result = "ok" /\ SameGraph(kg2, kg))

\* The round trip does hold while every coverage is at most INT_MAX.
RoundTripWithinIntMax ==
    (last.op = "load" /\ \A i \in NodeIds(kg) : At(kg, i).covg[1] < HALF \div 2) =>
        (last.result = "ok" /\ SameGraph(kg2, kg) /\ Mirrored(kg2))

\* C10: increment_covg on an allocated sample slot raises the addressed
\* counter by 1 below 65535 and leaves it at 65535; no other counter
\* changes and no counter becomes smaller.
C10_IncrementSaturates ==
    (last.op = "increment_covg" /\ last.args[3] < Len(last.pre[last.args[1] + 1])) =>
        LET n == last.args[1] + 1
            s == last.args[3] + 1
            k == StrandIndex(last.args[2])
            old == last.pre[n][s][k]
        IN  /\ last.result = "ok"
            /\ covgs[n][s][k] = IF old < 65535 THEN old + 1 ELSE 65535
            /\ \A n2 \in 1..Len(covgs) : \A s2 \in 1..Len(covgs[n2]) : \A k2 \in 1..2 :
                  /\ <<n2, s2, k2>> # <<n, s, k>> => covgs[n2][s2][k2] = last.pre[n2][s2][k2]
                  /\ covgs[n2][s2][k2] >= last.pre[n2][s2][k2]

\* C10 witness: a counter at 65535 was incremented
C10_Witness ==
    /\ last.op = "increment_covg"
    /\ last.result = "ok"
    /\ last.pre[last.args[1] + 1][last.args[3] + 1][StrandIndex(last.args[2])] = 65535
    /\ covgs = last.pre

----------------------------------------------------------------------------
(* Series of increments (specification SpecSeries)                         *)

\* most increment_covg calls in a series
MaxIncrements == 3

\* the <<forward, reverse>> counters a series starts from: zero and values
\* one or no step below the top
StartPairs ==
    {<<0, 0>>, <<UINT16_MAX - 1, 0>>, <<UINT16_MAX - 1, UINT16_MAX>>, <<UINT16_MAX, UINT16_MAX - 1>>}

\* the series starts from counters some earlier calls have left
InitSeries ==
    /\ kg = EmptyGraph
    /\ kg2 = EmptyGraph
    /\ gfa = NoFile
    /\ \E c \in StartPairs :
          covgs = [n \in 1..CovgNodes |-> [s \in 1..NumSamples |-> c]]
    /\ calls = 0
    /\ pars = NewParams
    /\ argv = <<>>
    /\ kmer_prob_dist = <<>>
    /\ peaks = NoPeaks
    /\ last = Call("series", <<>>, "ok", <<>>, covgs)

\* one more increment_covg call; last.ret lists the calls of the series and
\* last.pre holds the counters the series started from
IncrementInSeries(node_id, strand, sample_id) ==
    /\ Alive
    /\ calls < MaxIncrements
    /\ LET r == increment_covg(covgs, node_id, strand, sample_id) IN
          /\ covgs' = r.c
          /\ last' = Call("series", <<node_id, strand, sample_id>>, r.result,
                          Append(last.ret, <<node_id, strand, sample_id>>), last.pre)
    /\ calls' = calls + 1
    /\ UNCHANGED <<pars, kg, kg2, gfa, argv, kmer_prob_dist, peaks>>

NextSeries ==
    \E n \in 0..(CovgNodes - 1), st \in Strands, sa \in SampleIds :
        IncrementInSeries(n, st, sa)

SpecSeries == InitSeries /\ [][NextSeries]_vars

\* the counters after the calls of series s, applied in the order p, to C
RECURSIVE apply_series(_, _, _, _)
apply_series(C, s, p, i) ==
    IF i > Len(s) THEN C
    ELSE apply_series(increment_covg(C, s[p[i]][1], s[p[i]][2], s[p[i]][3]).c, s, p, i + 1)

\* the number of calls of series s that address counter <<n, sa, k>>
Addressing(s, n, sa, k) ==
    Cardinality({i \in 1..Len(s) : s[i] = <<n - 1, IF k = 1 THEN "Forward" ELSE "Reverse", sa - 1>>})

Min(a, b) == IF a < b THEN a ELSE b

\* C11: a series of increment_covg calls leaves the same counters in every
\* serial order of its calls: each counter is min(65535, initial + number of
\* calls of the series addressing it).
C11_IncrementsCommute ==
    (last.op = "series" /\ last.result = "ok") =>
        /\ \A p \in Permutations(1..Len(last.ret)) :
              apply_series(last.pre, last.ret, p, 1) = covgs
        /\ \A n \in 1..Len(covgs) : \A sa \in 1..Len(covgs[n]) : \A k \in 1..2 :
              covgs[n][sa][k] = Min(65535, last.pre[n][sa][k] + Addressing(last.ret, n, sa, k))

\* C11 witness: a series of three calls, two of them on one counter that
\* started at 65534 and one on the other strand, has been applied
C11_Witness ==
    /\ last.op = "series"
    /\ last.result = "ok"
    /\ Len(last.ret) = 3
    /\ last.pre[1][1] = <<65534, 0>>
    /\ Addressing(last.ret, 1, 1, 1) = 2
    /\ Addressing(last.ret, 1, 1, 2) = 1
    /\ covgs[1][1] = <<65535, 1>>

\* the other strand
OtherStrand(strand) == IF strand = "Forward" THEN "Reverse" ELSE "Forward"

\* C12: increment_covg and set_covg on a sample_id that is no allocated slot
\* of the node fail and leave all coverage unchanged; get_covg on such a
\* sample_id does not fail and returns 0; on an allocated slot get_covg
\* after set_covg(node, v, strand, sample) returns v, and the other strand
\* keeps its value.
C12_SampleOutOfRange ==
    /\ (last.op = "increment_covg" /\ last.args[3] >= Len(last.pre[last.args[1] + 1])) =>
          (last.result = "failed" /\ covgs = last.pre)
    /\ (last.op = "set_covg" /\ last.args[4] >= Len(last.pre[last.args[1] + 1])) =>
          (last.result = "failed" /\ covgs = last.pre)
    /\ (last.op = "get_covg" /\ last.args[3] >= Len(last.pre[last.args[1] + 1])) =>
          (last.result = "ok" /\ last.ret = 0 /\ covgs = last.pre)
    /\ (last.op = "get_covg" /\ last.args[3] < Len(last.pre[last.args[1] + 1])) =>
          (last.result = "ok"
           /\ last.ret = covgs[last.args[1] + 1][last.args[3] + 1][StrandIndex(last.args[2])])
    /\ (last.op = "set_covg" /\ last.args[4] < Len(last.pre[last.args[1] + 1])) =>
          /\ last.result = "ok"
          /\ get_covg(covgs, last.args[1], last.args[3], last.args[4]) = last.args[2]
          /\ get_covg(covgs, last.args[1], OtherStrand(last.args[3]), last.args[4])
                = get_covg(last.pre, last.args[1], OtherStrand(last.args[3]), last.args[4])

\* C12 witness: set_covg was refused for the sample id one past the slots,
\* after a call that had stored a value
C12_Witness ==
    /\ last.op = "set_covg"
    /\ last.args[4] = NumSamples
    /\ last.result = "failed"
    /\ covgs # zeroCoverages

\* C12 witness of the valid case: a stored value is read back by get_covg
C12_WitnessReadBack ==
    /\ last.op = "get_covg"
    /\ last.ret = UINT16_MAX

----------------------------------------------------------------------------
(* Probabilities and paths on a graph with coverage (specification         *)
(* SpecPath)                                                               *)

\* most paths asked of get_random_paths
MaxPaths == 2

\* the path of node i of a graph of n nodes: the source and the sink hold an
\* empty interval, the nodes between them a k-mer of three positions
node_path(i, n) ==
    IF i = 0 \/ i = n - 1 THEN << <<i, i>> >> ELSE << <<i, i + 3>> >>

\* the graph of n nodes and the given edges, built by add_node and add_edge
RECURSIVE with_nodes(_, _)
with_nodes(i, n) ==
    IF i = 0 THEN EmptyGraph ELSE add_node(with_nodes(i - 1, n), node_path(i - 1, n))

RECURSIVE with_edges(_, _, _)
with_edges(n, edges, k) ==
    IF k = 0 THEN with_nodes(n, n)
    ELSE (CHOOSE o \in add_edge_id(with_edges(n, edges, k - 1), edges[k][1], edges[k][2]) : TRUE).g

kmer_prg(n, edges) == with_edges(n, edges, Len(edges))

\* the graphs of SpecPath: source and sink joined directly, chains of one
\* and two k-mers, a chain with a direct edge past it (in both orders of the
\* out list of the source), and a bubble
PathGraphs ==
    { kmer_prg(2, << <<0, 1>> >>),
      kmer_prg(3, << <<0, 1>>, <<1, 2>> >>),
      kmer_prg(3, << <<0, 1>>, <<1, 2>>, <<0, 2>> >>),
      kmer_prg(3, << <<0, 2>>, <<0, 1>>, <<1, 2>> >>),
      kmer_prg(4, << <<0, 1>>, <<1, 2>>, <<2, 3>> >>),
      kmer_prg(4, << <<0, 1>>, <<0, 2>>, <<1, 3>>, <<2, 3>> >>) }

\* the <<forward, reverse>> counters of a node for the one allocated sample
CovgPairs == {<<0, 0>>, <<1, 0>>, <<1, 1>>}

\* parameters set before a path is sought: num_reads, the binomial p (unset
\* or 1/2) and thresh
PathParams ==
    {[NewParams EXCEPT !.num_reads = n, !.binomial_parameter_p = p, !.thresh = t] :
        n \in {0, 2}, p \in {<<1, 1>>, <<1, 2>>}, t \in {-25000000, -500000}}

InitPath ==
    /\ kg \in PathGraphs
    /\ kg2 = EmptyGraph
    /\ gfa = NoFile
    /\ covgs \in [1..Size(kg) -> {<<c>> : c \in CovgPairs}]
    /\ calls = 0
    /\ pars \in PathParams
    /\ argv = <<>>
    /\ kmer_prob_dist = <<>>
    /\ peaks = NoPeaks
    /\ last = Call("new", <<>>, "ok", <<>>, <<>>)

\* the object and the arguments of a call
Object(prob_model, max_num_kmers_to_average, sample_id) ==
    [g |-> kg, c |-> covgs, p |-> pars, prob_model |-> prob_model,
     max_num_kmers_to_average |-> max_num_kmers_to_average, sample_id |-> sample_id]

\* one call is made on each object
Fresh == last.op = "new"

CoverageIsZeroes(sample_id) ==
    /\ Fresh
    /\ last' = Call("coverage_is_zeroes", <<sample_id>>, "ok",
                    coverage_is_zeroes(Object("", 0, sample_id)), <<>>)
    /\ UNCHANGED <<kg, kg2, gfa, covgs, calls, pars, argv, kmer_prob_dist, peaks>>

GetProb(prob_model, node_id, sample_id) ==
    /\ Fresh
    /\ node_id < Size(kg)
    /\ LET r == get_prob(Object(prob_model, 0, sample_id), node_id) IN
          last' = Call("get_prob", <<prob_model, node_id, sample_id>>, r.result, r.value, <<>>)
    /\ UNCHANGED <<kg, kg2, gfa, covgs, calls, pars, argv, kmer_prob_dist, peaks>>

\* the node lists prob_path is called with: the edge-connected lists of the
\* graph
RECURSIVE lists_from(_, _, _)
lists_from(G, v, fuel) ==
    {<<v>>} \cup
    (IF fuel = 0 THEN {}
     ELSE UNION {{<<v>> \o l : l \in lists_from(G, At(G, v).outNodes[i], fuel - 1)} :
                    i \in 1..Len(At(G, v).outNodes)})

NodeLists(G) == UNION {lists_from(G, v, Size(G)) : v \in 0..(Size(G) - 1)}

ProbPath(kpath, prob_model, sample_id) ==
    /\ Fresh
    /\ LET r == prob_path(Object(prob_model, 0, sample_id), kpath) IN
          last' = Call("prob_path", <<kpath, sample_id, prob_model>>, r.result,
                       [sum |-> r.sum, len |-> r.len], <<>>)
    /\ UNCHANGED <<kg, kg2, gfa, covgs, calls, pars, argv, kmer_prob_dist, peaks>>

FindMaxPath(prob_model, max_num_kmers_to_average, sample_id) ==
    /\ Fresh
    /\ LET r == find_max_path(Object(prob_model, max_num_kmers_to_average, sample_id), <<>>) IN
          last' = Call("find_max_path", <<prob_model, max_num_kmers_to_average, sample_id>>,
                       r.result, r, <<>>)
    /\ UNCHANGED <<kg, kg2, gfa, covgs, calls, pars, argv, kmer_prob_dist, peaks>>

\* outcomes of the read mapping: no alignment, one alignment to the
\* sequence of one node, or two to one node and one to the next node
MappingHits(G) ==
    {[i \in 1..Size(G) |-> 0]}
    \cup {[i \in 1..Size(G) |-> IF i = a THEN 1 ELSE 0] : a \in 1..Size(G)}
    \cup {[i \in 1..Size(G) |-> IF i = a THEN 2 ELSE IF i = a + 1 THEN 1 ELSE 0] :
            a \in 1..Size(G)}

FindMaxPathWithBaseLevelMapping(prob_model, max_num_kmers_to_average, sample_id, hits) ==
    /\ Fresh
    /\ LET r == find_max_path_with_base_level_mapping(
                    Object(prob_model, max_num_kmers_to_average, sample_id), <<>>, hits) IN
          last' = Call("find_max_path_with_base_level_mapping",
                       <<prob_model, max_num_kmers_to_average, sample_id, hits>>,
                       r.result, r, <<>>)
    /\ UNCHANGED <<kg, kg2, gfa, covgs, calls, pars, argv, kmer_prob_dist, peaks>>

GetRandomPaths(num_paths) ==
    /\ Fresh
    /\ \E r \in get_random_paths(kg, num_paths) :
          last' = Call("get_random_paths", <<num_paths>>, r.result, r.rpaths, <<>>)
    /\ UNCHANGED <<kg, kg2, gfa, covgs, calls, pars, argv, kmer_prob_dist, peaks>>

\* the model strings: the three models and a string that names none
ProbModels == {"bin", "nbin", "lin", "binomial"}

\* values of max_num_kmers_to_average
AverageOver == {1, 2, 100}

NextPath ==
    \/ \E sa \in 0..1 : CoverageIsZeroes(sa)
    \/ \E m \in ProbModels, n \in 0..3, sa \in 0..1 : GetProb(m, n, sa)
    \/ \E l \in NodeLists(kg), m \in ProbModels : ProbPath(l, m, 0)
    \/ \E m \in ProbModels, a \in AverageOver, sa \in 0..1 : FindMaxPath(m, a, sa)
    \/ \E m \in ProbModels, h \in MappingHits(kg) :
          FindMaxPathWithBaseLevelMapping(m, 100, 0, h)
    \/ \E n \in 0..MaxPaths : GetRandomPaths(n)

SpecPath == InitPath /\ [][NextPath]_vars

----------------------------------------------------------------------------
(* Properties of the probabilities and paths (specification SpecPath)      *)

\* the forward + reverse coverage stored for node i (0-based) and the
\* sample, 0 for a sample without a slot
StoredCoverage(i, sample_id) ==
    IF sample_id < Len(covgs[i + 1])
    THEN covgs[i + 1][sample_id + 1][1] + covgs[i + 1][sample_id + 1][2]
    ELSE 0

\* the source and the sink are the first and the last node
IsSentinel(i) == i = 0 \/ i = Size(kg) - 1

\* C13 (as claimed): coverage_is_zero(sample_id) returns true exactly when
\* every node other than the source and the sink has forward + reverse
\* coverage 0 for the sample; coverage on a sentinel does not matter.
C13_ZeroIgnoresSentinels ==
    last.op = "coverage_is_zeroes" =>
        (last.ret <=> \A i \in NodeIds(kg) : IsSentinel(i) \/ StoredCoverage(i, last.args[1]) = 0)

\* C13 (amended): coverage_is_zeroes(sample_id) returns true exactly when
\* every node, the source and the sink included, has forward + reverse
\* coverage 0 for the sample.
C13_ZeroOverAllNodes ==
    last.op = "coverage_is_zeroes" =>
        /\ last.result = "ok"
        /\ last.ret <=> \A i \in NodeIds(kg) : StoredCoverage(i, last.args[1]) = 0

\* C13 witness: the call returned false on a graph whose only coverage is on
\* the sink
C13_Witness ==
    /\ last.op = "coverage_is_zeroes"
    /\ last.ret = FALSE
    /\ Size(kg) = 4
    /\ \A i \in NodeIds(kg) : StoredCoverage(i, last.args[1]) > 0 <=> i = Size(kg) - 1

\* the max-path solvers
Solvers == {"find_max_path", "find_max_path_with_base_level_mapping"}

\* the sample id a solver was called with
SolverSample == last.args[3]

\* every node has zero coverage for the sample
AllZero(sample_id) == \A i \in NodeIds(kg) : StoredCoverage(i, sample_id) = 0

\* C14: when every node has zero coverage for the sample, both max-path
\* solvers return lowest(), leave the path they were given empty, and make
\* no get_prob call and no step of their loop.
C14_ZeroCoverageShortCircuit ==
    (last.op \in Solvers /\ AllZero(SolverSample)) =>
        /\ last.result = "ok"
        /\ last.ret.sum = Lowest
        /\ last.ret.maxpath = <<>>
        /\ last.ret.probes = 0
        /\ last.ret.steps = 0

\* C14 witness: find_max_path was called under the linear model, with reads
\* counted, on a bubble without any coverage in the allocated sample
C14_Witness ==
    /\ last.op = "find_max_path"
    /\ last.args[1] = "lin"
    /\ last.args[3] = 0
    /\ pars.num_reads > 0
    /\ Size(kg) = 4
    /\ AllZero(0)
    /\ last.ret.sum = Lowest

\* C14 witness of the other solver
C14_WitnessMapping ==
    /\ last.op = "find_max_path_with_base_level_mapping"
    /\ AllZero(0)
    /\ last.ret.sum = Lowest

\* the loop of find_max_path ran to its end and left no path from the
\* source: length_of_maxpath_from_node[0] is 0
NoPathFound ==
    /\ last.op = "find_max_path"
    /\ ~AllZero(last.args[3])
    /\ last.ret.loop = "ok"
    /\ last.ret.lengths[1] = 0

UsableModel(prob_model) ==
    \/ prob_model = "nbin"
    \/ prob_model = "lin" /\ pars.num_reads # 0
    \/ /\ prob_model = "bin"
       /\ pars.num_reads # 0
       /\ pars.binomial_parameter_p # <<1, 1>>

\* C16: get_prob returns a value exactly when the model and its parameters
\* are usable: it fails for a model string other than "bin", "nbin", "lin";
\* with num_reads = 0 it fails for "bin" and "lin" and returns a value for
\* "nbin"; for "bin" it fails while the binomial p is 1 (unset).
C16_GetProbFailsOnUnusableModel ==
    last.op = "get_prob" =>
        /\ last.result \in {"ok", "failed"}
        /\ last.result = "ok" <=> UsableModel(last.args[1])
        /\ last.result = "ok" => last.ret.k \in {"fin", "ninf"}

\* C16 witness: with no reads counted "nbin" returned a value
C16_Witness ==
    /\ last.op = "get_prob"
    /\ last.args[1] = "nbin"
    /\ pars.num_reads = 0
    /\ last.result = "ok"
    /\ last.ret.k = "fin"

\* C16 witness of a failure: "lin" with no reads counted
C16_WitnessLinFails ==
    /\ last.op = "get_prob"
    /\ last.args[1] = "lin"
    /\ pars.num_reads = 0
    /\ last.result = "failed"

\* 1 when node i is a sentinel, else 0
SentinelCount(i) == IF IsSentinel(i) THEN 1 ELSE 0

\* the effective length of a node list: its length less one for a sentinel
\* at its start and one for a sentinel at its end, at least 1
EffectiveLength(kpath) ==
    LET l == Len(kpath) - SentinelCount(kpath[1]) - SentinelCount(kpath[Len(kpath)])
    IN  IF l < 1 THEN 1 ELSE l

\* C17 (as claimed): for every non-empty path prob_path divides the sum of
\* the log-probabilities of its nodes by the effective length
\* max(1, |path| - [first node is a sentinel] - [last node is a sentinel]),
\* also for a path made of one sentinel node, where the divisor is 1.
C17_ProbPathDividesByEffectiveLength ==
    (last.op = "prob_path" /\ last.result = "ok") =>
        /\ last.ret.len = U32(EffectiveLength(last.args[1]))
        /\ last.ret.sum = sum_probs(Object(last.args[3], 0, last.args[2]), last.args[1], 1, Fin(0), 0).value

\* Away from the lists made of one sentinel the divisor is the effective
\* length.
ProbPathOfLongerLists ==
    (last.op = "prob_path" /\ last.result = "ok"
     /\ ~(Len(last.args[1]) = 1 /\ IsSentinel(last.args[1][1]))) =>
        last.ret.len = U32(EffectiveLength(last.args[1]))

\* the divisor of a list made of one sentinel is 2^32 - 1
ProbPathOfOneSentinel ==
    (last.op = "prob_path" /\ last.result = "ok"
     /\ Len(last.args[1]) = 1 /\ IsSentinel(last.args[1][1])) =>
        last.ret.len = <<HALF - 1, HALF - 1>>

----------------------------------------------------------------------------
(* Loading a graph with coverage (specification SpecLoad)                  *)

\* most S lines of a file, and the largest id written on one
MaxSegments == 3
MaxLoadId == 2

\* the path the file gives the node with this id
segment_path(id) == << <<id, id + 3>> >>

CovgField(tag, value) == [tag |-> tag, digits |-> Digits(U32(value))]

\* an S line for the node id: in the form save writes, in the legacy form
\* with one combined coverage field, cut short after the forward coverage,
\* with a trailing num_AT field, or with a sequence in place of the path
SegmentLine(form, id) ==
    LET head == <<"S", Digits(U32(id)), PathToString(segment_path(id))>> IN
    CASE form = "modern" -> head \o <<CovgField("FC:i:", id + 1), CovgField("RC:i:", UINT16_MAX + 3)>>
      [] form = "legacy" -> head \o <<CovgField("RC:i:", id + 1)>>
      [] form = "short" -> head \o <<CovgField("FC:i:", id + 1)>>
      [] form = "extended" -> head \o <<CovgField("FC:i:", id + 1), CovgField("RC:i:", 2), Digits(U32(1))>>
      [] form = "sequence" -> <<"S", Digits(U32(id)), SequenceField,
                                CovgField("FC:i:", id + 1), CovgField("RC:i:", 2)>>

SegmentForms == {"modern", "legacy", "short", "extended", "sequence"}

LinkLine(from, to) == <<"L", Digits(U32(from)), "+", Digits(U32(to)), "+", "0M">>

\* the forms of n S lines: all as save writes them, or one line in another
\* form
FormsOf(n) ==
    {[i \in 1..n |-> "modern"]}
        \cup {[i \in 1..n |-> IF i = odd THEN form ELSE "modern"] :
                 odd \in 1..n, form \in SegmentForms}

\* the files: a header, up to MaxSegments S lines of any id, and possibly a
\* link from node 0 to node 1
Files ==
    UNION {{<< <<"H", "VN:Z:1.0", "bn:Z:--linear --singlearr">> >>
               \o [i \in 1..n |-> SegmentLine(forms[i], ids[i])] \o links :
             forms \in FormsOf(n), ids \in [1..n -> 0..MaxLoadId],
             links \in {<<>>, <<LinkLine(0, 1)>>}} :
           n \in 0..MaxSegments}

InitLoad ==
    /\ kg = EmptyGraph
    /\ kg2 = EmptyGraph
    /\ gfa \in Files
    /\ covgs = <<>>
    /\ calls = 0
    /\ pars = NewParams
    /\ argv = <<>>
    /\ kmer_prob_dist = <<>>
    /\ peaks = NoPeaks
    /\ last = Call("new", <<>>, "ok", <<>>, <<>>)

LoadWithCoverage ==
    /\ Fresh
    /\ LET r == load_with_coverage(gfa) IN
          /\ kg' = r.g
          /\ covgs' = r.c
          /\ last' = Call("load", <<>>, r.result, <<>>, <<>>)
    /\ UNCHANGED <<kg2, gfa, calls, pars, argv, kmer_prob_dist, peaks>>

NextLoad == LoadWithCoverage

SpecLoad == InitLoad /\ [][NextLoad]_vars

\* the S lines of the file, in its order, and the ids written on them
Segments == SelectSeq(gfa, LAMBDA l : l[1] = "S")

SegmentIds == [i \in 1..Len(Segments) |-> stoi(Segments[i][2]).value]

\* a segment in the legacy form: four fields, the last one RC:i:<covg>
IsLegacy(l) == Len(l) = 4 /\ l[4].tag = "RC:i:"

\* a segment in the form save writes, with or without the num_AT field
IsWellFormed(l) ==
    /\ Len(l) >= 5
    /\ isdigit_peek(l[3])
    /\ l[4].tag = "FC:i:"
    /\ l[5].tag = "RC:i:"

\* the L lines of the file, and whether each joins two ids the S lines give
Links == SelectSeq(gfa, LAMBDA l : l[1] = "L")

LinksInRange ==
    \A i \in 1..Len(Links) :
        /\ stoi(Links[i][2]).value < Len(Segments)
        /\ stoi(Links[i][4]).value < Len(Segments)

Ascending == \A i \in 1..Len(SegmentIds) : SegmentIds[i] = i - 1

Descending == \A i \in 1..Len(SegmentIds) : SegmentIds[i] = Len(SegmentIds) - i

\* C18 (as claimed): an S line of exactly four fields S, id, path,
\* RC:i:covg is read as a node with that id and path; the load does not
\* fail on it and reads no field the line does not hold.
C18_LegacySegmentIsRead ==
    (/\ last.op = "load"
     /\ Ascending
     /\ \A i \in 1..Len(Segments) : IsLegacy(Segments[i]) \/ IsWellFormed(Segments[i])) =>
        /\ last.result = "ok"
        /\ Size(kg) = Len(Segments)
        /\ \A i \in 1..Len(Segments) :
              /\ kg.nodes[i].id = SegmentIds[i]
              /\ kg.nodes[i].path = PathFromString(Segments[i][3])

\* A load that meets a legacy segment fails on it.
LegacySegmentFails ==
    (/\ last.op = "load"
     /\ \E i \in 1..Len(Segments) :
           /\ IsLegacy(Segments[i])
           /\ \A j \in 1..(i - 1) : IsWellFormed(Segments[j]) /\ SegmentIds[j] = j - 1
           /\ SegmentIds[i] = i - 1) =>
        last.result = "failed"

\* the nodes loaded are those of the S lines in the order given
LoadedAs(order) ==
    /\ last.result = "ok"
    /\ Size(kg) = Len(order)
    /\ \A i \in 1..Len(order) :
          /\ kg.nodes[i].id = i - 1
          /\ kg.nodes[i].path = PathFromString(order[i][3])
          /\ covgs[i][1][1] = stoul_from(order[i][4].digits, 1, 0) % 65536
          /\ covgs[i][1][2] = stoul_from(order[i][5].digits, 1, 0) % 65536
    /\ \A i \in 1..Len(Links) :
          kg.nodes[stoi(Links[i][2]).value + 1].outNodes = <<stoi(Links[i][4]).value>>

\* C19: a load that does not fail ends with nodes[i].id = i for every i:
\* a file of well-formed S lines with the ids 0..N ascending, whose L lines
\* join ids of the file, is loaded as it is, one with the ids N..0 descending
\* is loaded and the node vector reversed, and one with any other sequence
\* of ids is rejected.
C19_LoadedIdsArePositions ==
    last.op = "load" =>
        /\ last.result = "ok" => \A i \in 1..Size(kg) : kg.nodes[i].id = i - 1
        /\ (\A i \in 1..Len(Segments) : IsWellFormed(Segments[i])) =>
              /\ Ascending /\ LinksInRange => LoadedAs(Segments)
              /\ Descending /\ LinksInRange => LoadedAs(Reverse(Segments))
              /\ ~Ascending /\ ~Descending => last.result = "failed"

\* C19 witness: a file listing the ids 2, 1, 0 was loaded
C19_Witness ==
    /\ last.op = "load"
    /\ last.result = "ok"
    /\ Len(SegmentIds) = 3
    /\ SegmentIds = <<2, 1, 0>>
    /\ kg.nodes[1].path = segment_path(0)
    /\ kg.nodes[3].path = segment_path(2)
    /\ kg.nodes[1].outNodes = <<1>>

\* C19 witness of a rejection: the ids 0, 2, 1 on well-formed lines
C19_WitnessRejected ==
    /\ last.op = "load"
    /\ last.result = "failed"
    /\ SegmentIds = <<0, 2, 1>>
    /\ \A i \in 1..Len(Segments) : IsWellFormed(Segments[i])

----------------------------------------------------------------------------
(* Random walks from the source to the sink                                *)

\* the ids of the out-neighbours of node v of the graph
OutNeighbours(v) == {At(kg, v).outNodes[i] : i \in 1..Len(At(kg, v).outNodes)}

SinkId == Size(kg) - 1

\* the list is an edge-connected walk from an out-neighbour of the source to
\* a node with the sink among its out-neighbours, the sink not on it
SourceToSinkWalk(l) ==
    /\ Len(l) >= 1
    /\ l[1] \in OutNeighbours(0)
    /\ SinkId \in OutNeighbours(l[Len(l)])
    /\ \A i \in 1..(Len(l) - 1) : l[i + 1] \in OutNeighbours(l[i])
    /\ \A i \in 1..Len(l) : l[i] # SinkId

\* C20 (as claimed): get_random_paths(n) returns exactly n node lists; every
\* walk terminates, each list is an edge-connected walk that starts at an
\* out-neighbour of the source and ends at a node having the sink as
\* out-neighbour, and no list contains the sink.
C20_RandomPathsAreSourceToSinkWalks ==
    last.op = "get_random_paths" =>
        /\ last.result = "ok"
        /\ Len(last.ret) = last.args[1]
        /\ \A j \in 1..Len(last.ret) : SourceToSinkWalk(last.ret[j])

\* C20 (amended): get_random_paths(n) returns exactly n node lists and every
\* walk terminates; a walk that steps from the source straight to the sink
\* leaves an empty list, and every other list is an edge-connected walk over
\* nodes other than the source and the sink, from an out-neighbour of the
\* source to a node having the sink as out-neighbour.
C20_RandomPathsAreInteriorWalks ==
    last.op = "get_random_paths" =>
        /\ last.result = "ok"
        /\ Len(last.ret) = last.args[1]
        /\ \A j \in 1..Len(last.ret) :
              IF last.ret[j] = <<>> THEN SinkId \in OutNeighbours(0)
              ELSE /\ SourceToSinkWalk(last.ret[j])
                   /\ \A i \in 1..Len(last.ret[j]) : last.ret[j][i] # 0

\* C20 witness: two walks on a graph with an edge from the source to the
\* sink, one over that edge and one through a k-mer
C20_Witness ==
    /\ last.op = "get_random_paths"
    /\ last.result = "ok"
    /\ last.args[1] = 2
    /\ last.ret[1] = <<>>
    /\ last.ret[2] = <<1>>

\* C20 witness of a walk through a bubble
C20_WitnessBubble ==
    /\ last.op = "get_random_paths"
    /\ last.result = "ok"
    /\ Size(kg) = 4
    /\ Len(last.ret) = 2
    /\ last.ret[1] = <<1>>
    /\ last.ret[2] = <<2>>

----------------------------------------------------------------------------
(* The command pandora index (specification SpecIndex).  argv[1] is the     *)
(* name of the command, the arguments follow it; argc is Len(argv).        *)

\* most arguments after the name of the command
MaxArgs == 3

\* atoi of an argument: the number it starts with, 0 when it starts with none
atoi(arg) == IF arg = "3" THEN 3 ELSE 0

\* the PRG files that can be opened
ReadableFiles == {"prgs.fa"}

\* read_prg_file(prgs, prgfile): a file that cannot be opened is an I/O error
read_prg_file(prgfile) == IF prgfile \in ReadableFiles THEN "ok" ELSE "io_error"

\* the outcome of pandora_index: its exit status, the steps of work it
\* reached, and the parameters parsed
Exit(status, work, st) ==
    [exit |-> status, work |-> work, prgfile |-> st.prgfile, w |-> st.w, k |-> st.k]

\* what follows the loop over the arguments; dir_err is the value system()
\* returns
index_after_parsing(st, dir_err) ==
    IF read_prg_file(st.prgfile) # "ok" THEN Exit(2, <<"read_prg_file">>, st)
    ELSE IF dir_err = -1 THEN Exit(1, <<"read_prg_file", "mkdir">>, st)
    ELSE Exit(0, <<"read_prg_file", "mkdir", "index_prgs", "save">>, st)

\* the loop of pandora_index from argv[i] on (i is 1-based, so the code's
\* i + 1 < argc reads i < Len(args)), and what follows it
RECURSIVE parse_arguments(_, _, _, _)
parse_arguments(args, i, st, dir_err) ==
    IF ~(i - 1 < Len(args)) THEN index_after_parsing(st, dir_err)
    ELSE LET arg == args[i] IN
         IF arg = "-h" \/ arg = "--help" THEN Exit(0, <<>>, st)
         ELSE IF arg = "-u" \/ arg = "--update"
         THEN parse_arguments(args, i + 1, [st EXCEPT !.update = TRUE], dir_err)
         ELSE IF arg = "-w"
         THEN IF i < Len(args)
              THEN parse_arguments(args, i + 2, [st EXCEPT !.w = atoi(args[i + 1])], dir_err)
              ELSE Exit(1, <<>>, st)
         ELSE IF arg = "-k"
         THEN IF i < Len(args)
              THEN parse_arguments(args, i + 2, [st EXCEPT !.k = atoi(args[i + 1])], dir_err)
              ELSE Exit(1, <<>>, st)
         ELSE IF st.prgfile = ""
         THEN parse_arguments(args, i + 1, [st EXCEPT !.prgfile = arg], dir_err)
         ELSE parse_arguments(args, i + 1, st, dir_err)

\* pandora_index(argc, argv)
pandora_index(args, dir_err) ==
    LET st == [prgfile |-> "", update |-> FALSE, w |-> 1, k |-> 15] IN
    IF Len(args) < 2 THEN Exit(1, <<>>, st)
    ELSE parse_arguments(args, 2, st, dir_err)

\* the words of a command line
Words == {"-h", "--help", "-u", "-w", "-k", "3", "prgs.fa", "none.fa"}

InitIndex ==
    /\ kg = EmptyGraph
    /\ kg2 = EmptyGraph
    /\ gfa = NoFile
    /\ covgs = <<>>
    /\ calls = 0
    /\ pars = NewParams
    /\ argv \in UNION {{<<"index">> \o a : a \in [1..n -> Words]} : n \in 0..MaxArgs}
    /\ kmer_prob_dist = <<>>
    /\ peaks = NoPeaks
    /\ last = Call("new", <<>>, "ok", <<>>, <<>>)

PandoraIndex(dir_err) ==
    /\ Fresh
    /\ LET r == pandora_index(argv, dir_err) IN
          last' = Call("pandora_index", <<dir_err>>, IF r.exit = 0 THEN "ok" ELSE "failed", r, <<>>)
    /\ UNCHANGED <<kg, kg2, gfa, covgs, calls, pars, argv, kmer_prob_dist, peaks>>

NextIndex == \E dir_err \in {0, -1} : PandoraIndex(dir_err)

SpecIndex == InitIndex /\ [][NextIndex]_vars

\* the argument at position i is the value of a -w or -k before it
RECURSIVE IsValue(_)
IsValue(i) ==
    /\ i >= 3
    /\ argv[i - 1] \in {"-w", "-k"}
    /\ ~IsValue(i - 1)

\* the argument at position i is an option or a positional argument
IsWord(i) == i \in 2..Len(argv) /\ ~IsValue(i)

HelpAsked == \E i \in 2..Len(argv) : IsWord(i) /\ argv[i] \in {"-h", "--help"}

NoArguments == Len(argv) < 2

OptionWithoutValue == IsWord(Len(argv)) /\ argv[Len(argv)] \in {"-w", "-k"}

NoPositional ==
    ~\E i \in 2..Len(argv) : IsWord(i) /\ argv[i] \notin {"-h", "--help", "-u", "--update", "-w", "-k"}

\* C21 (as claimed): pandora index exits with status 1, having done no work,
\* whenever a required argument is missing: no arguments at all, -w or -k
\* without a value, or only options and no <prgs.fa>; it exits with 0 on
\* -h/--help and on success.
C21_IndexExitStatus ==
    last.op = "pandora_index" =>
        /\ HelpAsked => last.ret.exit = 0 /\ last.ret.work = <<>>
        /\ ~HelpAsked /\ (NoArguments \/ OptionWithoutValue \/ NoPositional) =>
              last.ret.exit = 1 /\ last.ret.work = <<>>
        /\ (Len(last.ret.work) = 4 /\ last.ret.work[4] = "save") => last.ret.exit = 0

\* The cases of C21 the code does meet: no arguments, an option without its
\* value, help, and success.
IndexExitStatusButNoPositional ==
    last.op = "pandora_index" =>
        /\ HelpAsked => last.ret.exit = 0 /\ last.ret.work = <<>>
        /\ ~HelpAsked /\ (NoArguments \/ OptionWithoutValue) =>
              last.ret.exit = 1 /\ last.ret.work = <<>>
        /\ (Len(last.ret.work) = 4 /\ last.ret.work[4] = "save") => last.ret.exit = 0

\* With options only, pandora_index goes on to read the file named "".
OptionsOnlyReadsNoFile ==
    (last.op = "pandora_index" /\ ~HelpAsked /\ ~NoArguments /\ ~OptionWithoutValue /\ NoPositional) =>
        /\ last.ret.prgfile = ""
        /\ last.ret.work = <<"read_prg_file">>
        /\ last.ret.exit = 2

OptionsOnlyWasRun ==
    /\ last.op = "pandora_index"
    /\ argv = <<"index", "-w", "3">>
    /\ last.ret.w = 3

----------------------------------------------------------------------------
(* The tables of the dynamic program of find_max_path                      *)

\* the arguments of the last call of find_max_path, with the object
SolvedObject == Object(last.args[1], last.args[2], last.args[3])

\* find_max_path ran its dynamic program to the end
ProgramRan ==
    /\ last.op = "find_max_path"
    /\ last.ret.loop = "ok"
    /\ last.ret.steps > 0

\* the number of nodes other than the sink on the chain of successors that
\* starts at node u
RECURSIVE ChainNodes(_, _)
ChainNodes(u, fuel) ==
    IF u = SinkId \/ fuel = 0 THEN 0 ELSE 1 + ChainNodes(last.ret.prev[u + 1], fuel - 1)

\* the sum of get_prob over the first n nodes of the chain that starts at u
RECURSIVE ChainSum(_, _)
ChainSum(u, n) ==
    IF n = 0 THEN Fin(0)
    ELSE FAdd(get_prob(SolvedObject, u).value, ChainSum(last.ret.prev[u + 1], n - 1))

\* C22 (as claimed): after the dynamic program, for every node u with
\* L[u] > 0, L[u] <= M, L[u] is the smaller of M and the number of nodes
\* other than the sink on the chain of successors from u, and S[u] is the sum
\* of get_prob over exactly the first L[u] nodes of that chain; the assertion
\* L[u] = M after the truncation never fails.
C22_TablesHoldTruncatedSuffix ==
    /\ (last.op = "find_max_path" /\ UsableModel(last.args[1])) => last.ret.loop = "ok"
    /\ ProgramRan =>
          \A u \in NodeIds(kg) :
              last.ret.lengths[u + 1] > 0 =>
                 /\ last.ret.lengths[u + 1] <= last.args[2]
                 /\ last.ret.lengths[u + 1] = Min(last.args[2], ChainNodes(u, Size(kg)))
                 /\ last.ret.sums[u + 1] = ChainSum(u, last.ret.lengths[u + 1])

\* The lengths are as C22 says, and the assertion holds.
LengthsAreTruncated ==
    /\ (last.op = "find_max_path" /\ UsableModel(last.args[1])) => last.ret.loop = "ok"
    /\ ProgramRan =>
          \A u \in NodeIds(kg) :
              last.ret.lengths[u + 1] > 0 =>
                 /\ last.ret.lengths[u + 1] <= last.args[2]
                 /\ last.ret.lengths[u + 1] = Min(last.args[2], ChainNodes(u, Size(kg)))

\* The sum of a node whose chain was not cut is the sum over its chain; the
\* sum of a node whose chain was cut is the sum of its own get_prob and the
\* sum of its successor, less get_prob of the node M + 1 steps along the
\* chain.
SumsDropTheNodeAfterTheWindow ==
    ProgramRan =>
        \A u \in NodeIds(kg) :
            last.ret.lengths[u + 1] > 0 =>
                LET v == last.ret.prev[u + 1]
                    whole == FAdd(get_prob(SolvedObject, u).value, last.ret.sums[v + 1])
                IN  IF 1 + last.ret.lengths[v + 1] > last.args[2]
                    THEN last.ret.sums[u + 1] =
                            FSub(whole, get_prob(SolvedObject,
                                                 nth_prev(last.ret.prev, v, last.args[2])).value)
                    ELSE last.ret.sums[u + 1] = whole

\* a chain of two k-mers was cut to one
ChainWasCut ==
    /\ ProgramRan
    /\ last.args[2] = 1
    /\ Size(kg) = 4
    /\ last.ret.prev[2] = 2
    /\ last.ret.lengths[2] = 1
    /\ ChainNodes(1, 4) = 2

----------------------------------------------------------------------------
(* The successor chosen by find_max_path                                   *)

\* S[v] / L[v] of the tables returned
MeanFrom(v) == FDiv(last.ret.sums[v + 1], last.ret.lengths[v + 1])

\* every successor of u is a node other than the sink with L > 0
InnerSuccessors(u) ==
    /\ OutNeighbours(u) # {}
    /\ \A v \in OutNeighbours(u) : v # SinkId /\ last.ret.lengths[v + 1] > 0

\* the mean of v exceeds the mean of every other successor of u by more than
\* the tolerance
ClearlyBest(u, v) ==
    \A w \in OutNeighbours(u) \ {v} : GreaterByTolerance(MeanFrom(v), MeanFrom(w))

PlusTolerance(a) == IF a.k = "fin" THEN [a EXCEPT !.n = @ + tolerance * a.d] ELSE a

\* the mean of v is above lowest() and exceeds the mean of every other
\* successor of u by more than twice the tolerance
BestByTwice(u, v) ==
    /\ GreaterByTolerance(MeanFrom(v), Lowest)
    /\ \A w \in OutNeighbours(u) \ {v} :
          GreaterByTolerance(MeanFrom(v), PlusTolerance(MeanFrom(w)))

C23_WitnessFirst ==
    /\ ProgramRan
    /\ Size(kg) = 4
    /\ At(kg, 0).outNodes = <<1, 2>>
    /\ InnerSuccessors(0)
    /\ BestByTwice(0, 1)
    /\ last.ret.prev[1] = 1

----------------------------------------------------------------------------
(* The path reconstructed by find_max_path                                 *)

\* find_max_path got past its test for a path and called prob_path
PathWasScored ==
    /\ ProgramRan
    /\ last.ret.lengths[1] > 0
    /\ last.result \in {"ok", "undefined"}

\* C29 (as claimed): find_max_path never hands prob_path an empty list:
\* whenever the coverage is not all zero and L[source] > 0, the path
\* reconstructed holds at least one node, also when the source has an edge
\* to the sink and the sink is the successor chosen for the source.
C29_ScoredPathIsNotEmpty ==
    PathWasScored =>
        /\ last.ret.maxpath # <<>>
        /\ last.result = "ok"

\* The path reconstructed is empty exactly when the successor chosen for the
\* source is the sink, and prob_path then reads kpath[0] of an empty vector.
EmptyPathWhenSinkIsChosen ==
    PathWasScored =>
        /\ last.ret.maxpath = <<>> <=> last.ret.prev[1] = SinkId
        /\ last.ret.maxpath = <<>> <=> last.result = "undefined"

\* the sink was chosen for the source although the source has another
\* out-neighbour
SinkWasChosen ==
    /\ PathWasScored
    /\ Size(kg) = 3
    /\ At(kg, 0).outNodes = <<1, 2>>
    /\ last.ret.prev[1] = 2
    /\ last.ret.maxpath = <<>>

\* C24 (as claimed): whenever find_max_path returns from its dynamic
\* program, the reconstruction took at most |nodes| steps and the list
\* returned is a path of the graph: its first node is an out-neighbour of
\* the source, consecutive nodes are joined by an edge, its last node has the
\* sink as out-neighbour, and neither the source nor the sink is on it.
C24_ReconstructedPathIsAPath ==
    PathWasScored =>
        /\ Len(last.ret.maxpath) <= Size(kg)
        /\ SourceToSinkWalk(last.ret.maxpath)
        /\ \A i \in 1..Len(last.ret.maxpath) : last.ret.maxpath[i] # 0

\* When prob_path was handed a list that is not empty, C24 holds.
PathIsAPathUnlessEmpty ==
    (PathWasScored /\ last.result = "ok") =>
        /\ Len(last.ret.maxpath) <= Size(kg) - 2
        /\ SourceToSinkWalk(last.ret.maxpath)
        /\ \A i \in 1..Len(last.ret.maxpath) : last.ret.maxpath[i] # 0

\* a path of two k-mers was reconstructed
PathOfTwoWasFound ==
    /\ PathWasScored
    /\ last.result = "ok"
    /\ last.ret.maxpath = <<1, 2>>

----------------------------------------------------------------------------
(* The successor chosen by the read mapping (specification SpecMap)        *)

\* most primary alignments to the sequence of one candidate
MaxHits == 2

\* the edges of a chain source -> 1 -> ... -> 8 followed by a bubble of the
\* nodes 9 and 10 before the sink 11
LongBubbleEdges ==
    [i \in 1..8 |-> <<i - 1, i>>] \o << <<8, 9>>, <<8, 10>>, <<9, 11>>, <<10, 11>> >>

\* the graphs of SpecMap: the long bubble, a bubble in both orders of the
\* out list of the source, a bubble of three branches, and a k-mer with an
\* edge past it
MapGraphs ==
    { kmer_prg(12, LongBubbleEdges),
      kmer_prg(4, << <<0, 1>>, <<0, 2>>, <<1, 3>>, <<2, 3>> >>),
      kmer_prg(4, << <<0, 2>>, <<0, 1>>, <<1, 3>>, <<2, 3>> >>),
      kmer_prg(5, << <<0, 2>>, <<0, 3>>, <<0, 1>>, <<1, 4>>, <<2, 4>>, <<3, 4>> >>),
      kmer_prg(3, << <<0, 1>>, <<1, 2>>, <<0, 2>> >>) }

\* the nodes other than the sink that are one of several out-neighbours
Candidates(G) ==
    {v \in 1..(Size(G) - 2) :
        \E u \in 0..(Size(G) - 1) :
            /\ Len(At(G, u).outNodes) >= 2
            /\ \E i \in 1..Len(At(G, u).outNodes) : At(G, u).outNodes[i] = v}

\* the counters of a candidate; every other node was covered once
CandidateCovgs == {<<0, 0>>, <<1, 0>>, <<1, 1>>, <<0, 2>>}

InitMap ==
    /\ kg \in MapGraphs
    /\ kg2 = EmptyGraph
    /\ gfa = NoFile
    /\ covgs \in {[i \in 1..Size(kg) |-> IF i - 1 \in Candidates(kg) THEN <<c[i - 1]>> ELSE << <<1, 0>> >>] :
                    c \in [Candidates(kg) -> CandidateCovgs]}
    /\ calls = 0
    /\ pars = NewParams
    /\ argv = <<>>
    /\ kmer_prob_dist = <<>>
    /\ peaks = NoPeaks
    /\ last = Call("new", <<>>, "ok", <<>>, <<>>)

\* outcomes of the read mapping: the primary alignments to the sequence of
\* each candidate (the sequence of the sink is empty and is not mapped to)
ReadMappings(G) ==
    {[i \in 1..Size(G) |-> IF i - 1 \in Candidates(G) THEN h[i - 1] ELSE 0] :
        h \in [Candidates(G) -> 0..MaxHits]}

NextMap ==
    \E h \in ReadMappings(kg) : FindMaxPathWithBaseLevelMapping("nbin", 100, 0, h)

SpecMap == InitMap /\ [][NextMap]_vars

\* the mapping variant ran its loop
MappingRan ==
    /\ last.op = "find_max_path_with_base_level_mapping"
    /\ last.ret.steps > 0

\* the primary alignments counted for candidate v in the last call
HitsOf(v) == last.args[4][v + 1]

\* node u has several out-neighbours, and some / none of them was mapped to
Branches(u) == Len(At(kg, u).outNodes) >= 2

SomeMapped(u) == \E v \in OutNeighbours(u) : HitsOf(v) > 0

MostMapped(u) == {v \in OutNeighbours(u) : \A w \in OutNeighbours(u) : HitsOf(w) <= HitsOf(v)}

\* C25 (as claimed): in the read-mapping variant, at a node with two or more
\* successors the successor chosen is the candidate with the highest count
\* of primary alignments, and among several with the highest count the one
\* with the numerically smallest id (9 before 10).
C25_MostMappedSmallestId ==
    MappingRan =>
        \A u \in NodeIds(kg) :
            (Branches(u) /\ SomeMapped(u)) =>
                /\ last.ret.prev[u + 1] \in MostMapped(u)
                /\ \A w \in MostMapped(u) : last.ret.prev[u + 1] <= w

\* The successor chosen has the highest count, and among several with the
\* highest count it is the one whose id comes first as a string of digits.
MostMappedFirstName ==
    MappingRan =>
        \A u \in NodeIds(kg) :
            (Branches(u) /\ SomeMapped(u)) =>
                /\ last.ret.prev[u + 1] \in MostMapped(u)
                /\ \A w \in MostMapped(u) \ {last.ret.prev[u + 1]} :
                      NameLess(last.ret.prev[u + 1], w)

\* the candidates 9 and 10 were mapped to equally often
NineAndTenTied ==
    /\ MappingRan
    /\ Size(kg) = 12
    /\ HitsOf(9) = 1
    /\ HitsOf(10) = 1
    /\ last.ret.prev[9] = 10

\* the total coverage stored for node v, sample 0
TotalCoverage(v) == StoredCoverage(v, 0)

MostCovered(u) ==
    {v \in OutNeighbours(u) : \A w \in OutNeighbours(u) : TotalCoverage(w) <= TotalCoverage(v)}

\* C26 (as claimed): in the read-mapping variant, when no candidate was
\* mapped to, the sink is chosen if it is a candidate; otherwise the
\* candidate with the highest forward + reverse coverage is chosen, and among
\* several with the highest coverage the one with the smallest id, whatever
\* the order of the out list.
C26_FallbackSmallestId ==
    MappingRan =>
        \A u \in NodeIds(kg) :
            (Branches(u) /\ ~SomeMapped(u)) =>
                IF SinkId \in OutNeighbours(u) THEN last.ret.prev[u + 1] = SinkId
                ELSE /\ last.ret.prev[u + 1] \in MostCovered(u)
                     /\ \A w \in MostCovered(u) : last.ret.prev[u + 1] <= w

\* the position of node v in the out list of node u
RECURSIVE PositionIn(_, _, _)
PositionIn(u, v, i) ==
    IF At(kg, u).outNodes[i] = v THEN i ELSE PositionIn(u, v, i + 1)

\* When no candidate was mapped to, the sink is chosen if it is a candidate;
\* otherwise the candidate chosen has the highest coverage, and among
\* several with the highest coverage it is the first of the out list.
FallbackFirstOfOutList ==
    MappingRan =>
        \A u \in NodeIds(kg) :
            (Branches(u) /\ ~SomeMapped(u)) =>
                IF SinkId \in OutNeighbours(u) THEN last.ret.prev[u + 1] = SinkId
                ELSE /\ last.ret.prev[u + 1] \in MostCovered(u)
                     /\ \A w \in MostCovered(u) :
                           PositionIn(u, last.ret.prev[u + 1], 1) <= PositionIn(u, w, 1)

\* two candidates of equal coverage, the larger id first in the out list
EqualCoverageLargerIdFirst ==
    /\ MappingRan
    /\ Size(kg) = 4
    /\ At(kg, 0).outNodes = <<2, 1>>
    /\ ~SomeMapped(0)
    /\ TotalCoverage(1) = 2
    /\ TotalCoverage(2) = 2
    /\ last.ret.prev[1] = 2

----------------------------------------------------------------------------
(* Setting the negative binomial parameters (specification SpecNbin)       *)

\* most calls of set_negative_binomial_parameters in a behaviour
MaxNbinCalls == 3

\* values of nbin_prob and of nb_fail handed to a call
NbinProbs == {<<0, 1>>, <<1, 4>>, <<1, 2>>, <<-1, 4>>}

NbFails == {0, 1, -1}

InitNbin ==
    /\ kg = EmptyGraph
    /\ kg2 = EmptyGraph
    /\ gfa = NoFile
    /\ covgs = <<>>
    /\ calls = 0
    /\ pars \in {[NewParams EXCEPT !.negative_binomial_parameter_p = p,
                                   !.negative_binomial_parameter_r = r] :
                   p \in {<<1, 4>>, <<1, 2>>}, r \in {1, 2}}
    /\ argv = <<>>
    /\ kmer_prob_dist = <<>>
    /\ peaks = NoPeaks
    /\ last = Call("new", <<>>, "ok", <<>>, <<>>)

SetNegativeBinomialParameters(nb_prob, nb_fail) ==
    /\ Alive
    /\ calls < MaxNbinCalls
    /\ LET r == set_negative_binomial_parameters(pars, nb_prob, nb_fail) IN
          /\ pars' = r.p
          /\ last' = Call("set_negative_binomial_parameters", <<nb_prob, nb_fail>>,
                          r.result, <<>>, pars)
    /\ calls' = calls + 1
    /\ UNCHANGED <<kg, kg2, gfa, covgs, argv, kmer_prob_dist, peaks>>

NextNbin == \E p \in NbinProbs, f \in NbFails : SetNegativeBinomialParameters(p, f)

SpecNbin == InitNbin /\ [][NextNbin]_vars

\* 0 < nb_p < 1 and nb_r > 0
ValidNbin(P) == negative_binomial_parameters_were_previously_set(P)

NbinCall == last.op = "set_negative_binomial_parameters"

ZeroCall == last.args[1][1] = 0 /\ last.args[2] = 0

\* C27 (as claimed): after any sequence of successful calls of
\* set_negative_binomial_parameters from valid parameters, the parameters
\* stored are still valid; a call with (0, 0) changes nothing; and a call
\* made while the parameters stored are invalid fails and changes nothing.
C27_NbinParametersStayValid ==
    /\ Alive => ValidNbin(pars)
    /\ (NbinCall /\ ZeroCall) => pars = last.pre /\ last.result = "ok"
    /\ (NbinCall /\ ~ZeroCall /\ ~ValidNbin(last.pre)) => last.result = "failed" /\ pars = last.pre

\* The second and the third part of C27, and what a successful call stores.
NbinCallsAddOrFail ==
    /\ (NbinCall /\ ZeroCall) => pars = last.pre /\ last.result = "ok"
    /\ (NbinCall /\ ~ZeroCall /\ ~ValidNbin(last.pre)) => last.result = "failed" /\ pars = last.pre
    /\ (NbinCall /\ ~ZeroCall /\ ValidNbin(last.pre)) =>
          /\ last.result = "ok"
          /\ pars.negative_binomial_parameter_p =
                FractionAdd(last.pre.negative_binomial_parameter_p, last.args[1])
          /\ pars.negative_binomial_parameter_r = last.pre.negative_binomial_parameter_r + last.args[2]

\* a successful call left nb_p at 1
NbinLeftInvalid ==
    /\ NbinCall
    /\ last.result = "ok"
    /\ last.pre.negative_binomial_parameter_p = <<1, 2>>
    /\ last.args = << <<1, 2>>, 0 >>
    /\ pars.negative_binomial_parameter_p = <<1, 1>>

\* a call on invalid parameters failed
NbinFailedOnInvalid ==
    /\ NbinCall
    /\ last.result = "failed"
    /\ ~ValidNbin(last.pre)

----------------------------------------------------------------------------
(* get_node_order on the graphs that meet the invariants (SpecOrder)       *)

MaxOrderNodes == 5

\* the pairs an edge can join when insertion order is topological
ForwardPairs(n) == {e \in (0..(n - 1)) \X (0..(n - 1)) : e[1] < e[2]}

\* edge sets that leave no node but the source without in-edge and no node
\* but the sink without out-edge
ValidEdgeSets(n) ==
    {S \in SUBSET ForwardPairs(n) :
        /\ \A j \in 1..(n - 1) : \E e \in S : e[2] = j
        /\ \A i \in 0..(n - 2) : \E e \in S : e[1] = i}

\* the edges of a set in the order they are added: by source, then by target
RECURSIVE edge_list(_)
edge_list(S) ==
    IF S = {} THEN <<>>
    ELSE LET e == CHOOSE x \in S :
                     \A y \in S : x[1] < y[1] \/ (x[1] = y[1] /\ x[2] <= y[2])
         IN  <<e>> \o edge_list(S \ {e})

\* bubbles opened one inside the other, as many as the table has levels:
\* each of the nodes 0..NumLevels-1 has an edge to the next node and an edge
\* to the sink
NestedBubbleEdges ==
    [i \in 1..NumLevels |-> <<i - 1, i>>]
    \o [i \in 1..NumLevels |-> <<i - 1, NumLevels + 1>>]
    \o << <<NumLevels, NumLevels + 1>> >>

\* add_edge called for the edges k, k+1, ... of a list in turn, as long as
\* the calls return
RECURSIVE add_edges(_, _, _)
add_edges(G, edges, k) ==
    IF k > Len(edges) THEN G
    ELSE LET o == CHOOSE x \in add_edge_id(G, edges[k][1], edges[k][2]) : TRUE
         IN  IF o.result = "ok" THEN add_edges(o.g, edges, k + 1) ELSE o.g

\* every graph of up to MaxOrderNodes nodes that meets the invariants
OrderGraphs ==
    UNION {{kmer_prg(n, edge_list(S)) : S \in ValidEdgeSets(n)} : n \in 2..MaxOrderNodes}

InitOrder ==
    /\ kg \in OrderGraphs \/ kg = add_edges(with_nodes(NumLevels + 2, NumLevels + 2), NestedBubbleEdges, 1)
    /\ kg2 = EmptyGraph
    /\ gfa = NoFile
    /\ covgs = <<>>
    /\ calls = 0
    /\ pars = NewParams
    /\ argv = <<>>
    /\ kmer_prob_dist = <<>>
    /\ peaks = NoPeaks
    /\ last = Call("new", <<>>, "ok", <<>>, <<>>)

NextOrder == Fresh /\ GetNodeOrder

SpecOrder == InitOrder /\ [][NextOrder]_vars

OrderRan == last.op = "get_node_order"

\* the levels get_node_order computes for the nodes of the graph
Levels(G) == {Level(G, i) : i \in NodeIds(G)}

\* C28: for every graph that meets the invariants the bubble level computed
\* in get_node_order stays in 0..9: the assertion holds and the access to
\* the 10-slot table nodes_by_level is never outside it.
C28_BubbleLevelWithinTable ==
    (OrderRan /\ ValidGraph(kg) /\ check(kg, <<0, 0>>) = "ok") =>
        /\ last.result = "ok"
        /\ Levels(kg) \subseteq 0..(NumLevels - 1)

\* what the code does: the call ends well exactly when every level is inside
\* the table; the assertion fails when the first level outside is negative;
\* the table is written past its end when it is NumLevels or more
OrderOutcomeFollowsLevels ==
    OrderRan =>
        LET out == {i \in NodeIds(kg) : Level(kg, i) \notin 0..(NumLevels - 1)}
        IN  IF out = {} THEN last.result = "ok"
            ELSE LET i == CHOOSE x \in out : \A y \in out : x <= y
                 IN  last.result = IF Level(kg, i) < 0 THEN "failed" ELSE "undefined"

\* two bubbles close after one opened: the assertion of get_node_order fails
\* on a graph that meets the invariants
AssertionFailedOnValidGraph ==
    /\ OrderRan
    /\ ValidGraph(kg)
    /\ Size(kg) = 4
    /\ last.result = "failed"

\* ten bubbles are open at once: slot 10 of the table is written
TableOverrunOnValidGraph ==
    /\ OrderRan
    /\ ValidGraph(kg)
    /\ last.result = "undefined"

----------------------------------------------------------------------------
(* find_prob_thresh (SpecThresh)                                            *)

\* the number of bins of the histogram estimate_parameters builds
ProbBins == 200

\* a peak counts as the second one when it is less than this far from the
\* end of the histogram: in the first search, and in the second search
FirstMargin == 15

SecondMargin == 6

\* the value subtracted from a position to make it a log probability
ProbShift == 200

MaxBins == 3

MaxCount == 2

\* distance(begin, max_element(begin + first, begin + end)), positions from
\* 0: the first position of the largest value of [first, end), and end
\* when the range is empty
max_element(dist, first, end) ==
    IF first = end THEN end
    ELSE CHOOSE i \in first..(end - 1) :
            /\ \A j \in first..(end - 1) : dist[j + 1] <= dist[i + 1]
            /\ \A j \in first..(i - 1) : dist[j + 1] < dist[i + 1]

\* distance(begin, min_element(begin + first, begin + end))
min_element(dist, first, end) ==
    IF first = end THEN end
    ELSE CHOOSE i \in first..(end - 1) :
            /\ \A j \in first..(end - 1) : dist[j + 1] >= dist[i + 1]
            /\ \A j \in first..(i - 1) : dist[j + 1] > dist[i + 1]

\* the loop of the single peak, from position i on: the position kept
RECURSIVE minimal_nonzero(_, _, _)
minimal_nonzero(dist, i, peak) ==
    IF i = Len(dist) THEN peak
    ELSE IF dist[i + 1] > 0 /\ (dist[i + 1] < dist[peak + 1] \/ dist[peak + 1] = 0)
    THEN minimal_nonzero(dist, i + 1, i)
    ELSE minimal_nonzero(dist, i + 1, peak)

\* the condition of the two while loops
searching(dist, P) ==
    /\ P.first_peak = 0 \/ P.second_peak = Len(dist) - 1
    /\ P.first_peak # P.second_peak

\* the margin of the loop find_prob_thresh is in
margin(P) == IF P.pc = "first" THEN FirstMargin ELSE SecondMargin

\* the body of the two while loops: the locals after one iteration
peak_search(dist, P) ==
    LET peak == max_element(dist, 1 + P.first_peak, P.second_peak)
    IN  IF peak > Len(dist) - margin(P)
        THEN [P EXCEPT !.second_peak = peak]
        ELSE [P EXCEPT !.first_peak = peak]

\* find_prob_thresh is entered: an empty histogram returns 0 at once
FindProbThresh ==
    /\ Fresh
    /\ peaks.pc = "idle"
    /\ IF Len(kmer_prob_dist) = 0
       THEN /\ peaks' = [peaks EXCEPT !.pc = "done"]
            /\ last' = Call("find_prob_thresh", <<>>, "ok", 0, kmer_prob_dist)
       ELSE /\ peaks' = [pc |-> "first", first_peak |-> 0,
                         second_peak |-> Len(kmer_prob_dist) - 1]
            /\ UNCHANGED last
    /\ UNCHANGED <<kg, kg2, gfa, covgs, calls, pars, argv, kmer_prob_dist>>

\* one iteration of the loop find_prob_thresh is in.  A range given to
\* max_element that ends before it begins is undefined behaviour; an
\* iteration that changes neither first_peak nor second_peak is repeated
\* for ever, as nothing else the loop reads changes
PeakSearch ==
    /\ Alive
    /\ peaks.pc \in {"first", "second"}
    /\ searching(kmer_prob_dist, peaks)
    /\ IF 1 + peaks.first_peak > peaks.second_peak
       THEN /\ last' = Call("find_prob_thresh", <<>>, "undefined", 0, kmer_prob_dist)
            /\ UNCHANGED peaks
       ELSE IF peak_search(kmer_prob_dist, peaks) = peaks
       THEN /\ last' = Call("find_prob_thresh", <<>>, "diverges", 0, kmer_prob_dist)
            /\ UNCHANGED peaks
       ELSE /\ peaks' = peak_search(kmer_prob_dist, peaks)
            /\ UNCHANGED last
    /\ UNCHANGED <<kg, kg2, gfa, covgs, calls, pars, argv, kmer_prob_dist>>

\* the loop find_prob_thresh is in ends: with one peak the first search is
\* followed by the second, and the second by the single peak
LeaveSearch ==
    /\ Alive
    /\ peaks.pc \in {"first", "second"}
    /\ ~searching(kmer_prob_dist, peaks)
    /\ peaks' = IF peaks.first_peak # peaks.second_peak
                THEN [peaks EXCEPT !.pc = "min"]
                ELSE IF peaks.pc = "first"
                THEN [pc |-> "second", first_peak |-> 0,
                      second_peak |-> Len(kmer_prob_dist) - 1]
                ELSE [peaks EXCEPT !.pc = "single"]
    /\ UNCHANGED <<kg, kg2, gfa, covgs, calls, pars, argv, kmer_prob_dist, last>>

\* a single peak: the smallest non-zero count from the peak on
SinglePeak ==
    /\ Alive
    /\ peaks.pc = "single"
    /\ LET peak == max_element(kmer_prob_dist, 0, Len(kmer_prob_dist))
       IN  last' = Call("find_prob_thresh", <<>>, "ok",
                        minimal_nonzero(kmer_prob_dist, peak, peak) - ProbShift,
                        kmer_prob_dist)
    /\ peaks' = [peaks EXCEPT !.pc = "done"]
    /\ UNCHANGED <<kg, kg2, gfa, covgs, calls, pars, argv, kmer_prob_dist>>

\* two peaks: the minimum between them
MinBetweenPeaks ==
    /\ Alive
    /\ peaks.pc = "min"
    /\ last' = Call("find_prob_thresh", <<>>, "ok",
                    min_element(kmer_prob_dist, peaks.first_peak, peaks.second_peak) - ProbShift,
                    kmer_prob_dist)
    /\ peaks' = [peaks EXCEPT !.pc = "done"]
    /\ UNCHANGED <<kg, kg2, gfa, covgs, calls, pars, argv, kmer_prob_dist>>

\* a histogram of n bins, all zero but for a rise of height a to position p
\* and a rise of height b to position q
TwoPeaks(n, p, q, a, b) ==
    LET rise(i, c, h) == IF i - c >= h \/ c - i >= h THEN 0
                         ELSE IF i >= c THEN h - (i - c) ELSE h - (c - i)
    IN  [i \in 1..n |-> rise(i - 1, p, a) + rise(i - 1, q, b)]

\* positions of a peak: at either end and on either side of the margin
PeakPositions(n) ==
    {0, 1, n - FirstMargin - 1, n - FirstMargin, n - FirstMargin + 1, n - 2, n - 1} \cap 0..(n - 1)

\* the histograms of SpecThresh: every histogram of up to MaxBins bins with
\* counts up to MaxCount, and histograms of two peaks of FirstMargin bins,
\* of one bin more, and of ProbBins bins
Histograms ==
    {<<>>}
    \cup UNION {[1..n -> 0..MaxCount] : n \in 1..MaxBins}
    \cup UNION {{TwoPeaks(n, p, q, a, b) :
                    p \in PeakPositions(n), q \in PeakPositions(n),
                    a \in 0..MaxCount, b \in 0..MaxCount} :
                n \in {FirstMargin, FirstMargin + 1, ProbBins}}

InitThresh ==
    /\ kg = EmptyGraph
    /\ kg2 = EmptyGraph
    /\ gfa = NoFile
    /\ covgs = <<>>
    /\ calls = 0
    /\ pars = NewParams
    /\ argv = <<>>
    /\ kmer_prob_dist \in Histograms
    /\ peaks = NoPeaks
    /\ last = Call("new", <<>>, "ok", <<>>, <<>>)

NextThresh ==
    \/ FindProbThresh
    \/ PeakSearch
    \/ LeaveSearch
    \/ SinglePeak
    \/ MinBetweenPeaks

SpecThresh == InitThresh /\ [][NextThresh]_vars

\* the scheduling of a sequential function: the next statement is executed
SpecThreshFair == SpecThresh /\ WF_vars(NextThresh)

ThreshEnded == last.op = "find_prob_thresh"

ThreshReturned == ThreshEnded /\ last.result = "ok"

\* C30: find_prob_thresh terminates for every histogram, of ProbBins bins
\* or of any other number of bins, fewer than FirstMargin included: no
\* iteration of a peak search leaves the interval (first_peak, second_peak)
\* as it was, and the value returned lies between -200 and size - 201.
C30_FindProbThreshTerminates ==
    ThreshEnded /\ Len(kmer_prob_dist) > 0 =>
        /\ last.result = "ok"
        /\ last.ret >= 0 - ProbShift
        /\ last.ret <= Len(kmer_prob_dist) - 1 - ProbShift

\* C30 as a property of the behaviours: the function returns
ThreshEventuallyReturns == <>ThreshReturned

\* what the code does: the search goes on for ever exactly for histograms of
\* 2 to FirstMargin bins, whatever they hold
ThreshDivergesOnShortHistograms ==
    ThreshEnded =>
        (last.result = "diverges" <=> Len(kmer_prob_dist) \in 2..FirstMargin)

\* a value returned is in range, and no range of max_element is ill-formed
ThreshReturnsInRange ==
    /\ last.result # "undefined"
    /\ (ThreshReturned /\ Len(kmer_prob_dist) > 0) =>
          last.ret \in (0 - ProbShift)..(Len(kmer_prob_dist) - 1 - ProbShift)

\* an iteration that moves a peak narrows the interval
MovingPeakNarrowsInterval ==
    [][(peaks.pc \in {"first", "second"} /\ peaks'.pc = peaks.pc /\ peaks' # peaks) =>
          /\ peaks'.first_peak >= peaks.first_peak
          /\ peaks'.second_peak <= peaks.second_peak
          /\ peaks'.second_peak - peaks'.first_peak < peaks.second_peak - peaks.first_peak]_vars

\* the body of the second search is never executed: the first search ends
\* with one peak only for a histogram of one bin
SecondSearchNeverIterates ==
    peaks.pc = "second" =>
        /\ Len(kmer_prob_dist) = 1
        /\ ~searching(kmer_prob_dist, peaks)

\* the search is stuck on a histogram of two bins
ThreshStuckOnTwoBins ==
    /\ ThreshEnded
    /\ last.result = "diverges"
    /\ Len(kmer_prob_dist) = 2

\* the histogram of estimate_parameters: a minimum between two peaks is
\* returned
ThreshReturnedForProbBins ==
    /\ ThreshReturned
    /\ Len(kmer_prob_dist) = ProbBins
    /\ peaks.first_peak > 0
    /\ peaks.second_peak < ProbBins - 1

====
